---- MODULE Spec2Model ----
(***************************************************************************)
(* Model of the btc-bot backtesting simulator (backtest/simulator.py).     *)
(*                                                                         *)
(* Numbers.  Python floats are modelled by exact decimal arithmetic:       *)
(*   - money is an integer count of 1/Scale dollars (micro-dollars);       *)
(*   - probabilities and edges are integer hundredths (0.06 is 6);         *)
(*   - the fractional parameters max_risk_pct and daily_drawdown_cap, and  *)
(*     every quotient the code computes (drawdowns, win rate), are         *)
(*     fractions [num, den] in lowest terms.                               *)
(* ExactArithmetic states that no product of the model ever loses digits.  *)
(* The rounding of binary floating point is outside the model: a           *)
(* comparison is decided on the exact values of its operands.              *)
(***************************************************************************)
EXTENDS Integers, Sequences, FiniteSets, TLC

\* ------------------------------------------------------------------ bounds
\* Largest number of feature rows build_features hands to one run.
MaxRows == 3

\* ------------------------------------------------------------------- units
Scale == 10 ^ 6                  \* money units per dollar
MinPosition == Scale \div 100    \* the literal 0.01 of simulator.py:109
MsPerDay == 86400 * 1000         \* milliseconds of one UTC calendar day
BarMs == 5 * 60 * 1000           \* one 5-minute candle (config.py:18)
None == -1                       \* Python's None for a missing yes_price

Rat(n, d) == [num |-> n, den |-> d]

RECURSIVE GCD(_, _)
GCD(a, b) == IF b = 0 THEN a ELSE GCD(b, a % b)

\* The float quotient n / d (d > 0, n >= 0), kept exact in lowest terms.
Frac(n, d) == IF n = 0 THEN Rat(0, 1) ELSE Rat(n \div GCD(n, d), d \div GCD(n, d))

FracLeq(a, b) == a.num * b.den <= b.num * a.den

\* ------------------------------------------------- config.py, lines 26..32
MAX_TRADE_USD == 10 * Scale
MAX_RISK_PCT == Rat(1, 10)
EDGE_THRESHOLD == 6
CONSECUTIVE_LOSS_STOP == 2
DAILY_DRAWDOWN_CAP_PCT == Rat(1, 10)
INITIAL_BALANCE == 100 * Scale

\* The keyword defaults of run_backtest.
DefaultParams ==
    [ initial_balance       |-> INITIAL_BALANCE,
      max_trade_usd         |-> MAX_TRADE_USD,
      max_risk_pct          |-> MAX_RISK_PCT,
      edge_threshold        |-> EDGE_THRESHOLD,
      consecutive_loss_stop |-> CONSECUTIVE_LOSS_STOP,
      daily_drawdown_cap    |-> DAILY_DRAWDOWN_CAP_PCT ]

\* The argument tuples run_backtest is called with: the defaults, and
\* variations of each keyword argument.
ParamSets ==
    { DefaultParams,
      [DefaultParams EXCEPT !.initial_balance = 120 * Scale],
      [DefaultParams EXCEPT !.initial_balance = 105 * Scale,
                            !.daily_drawdown_cap = Rat(3, 10)],
      [DefaultParams EXCEPT !.initial_balance = Scale \div 10,
                            !.consecutive_loss_stop = 3,
                            !.daily_drawdown_cap = Rat(3, 10)],
      [DefaultParams EXCEPT !.initial_balance = Scale \div 20],
      [DefaultParams EXCEPT !.initial_balance = 5 * Scale,
                            !.max_risk_pct = Rat(1, 1),
                            !.daily_drawdown_cap = Rat(1, 1)],
      [DefaultParams EXCEPT !.max_risk_pct = Rat(1, 2),
                            !.max_trade_usd = 5 * Scale,
                            !.edge_threshold = 20,
                            !.consecutive_loss_stop = 1,
                            !.daily_drawdown_cap = Rat(1, 2)] }

\* Inputs of one feature row.
ModelProbs == {56, 70}           \* model.predict_proba, hundredths
YesPrices == {None, 0, 64}       \* aligned[..]["yes_price"], hundredths
Labels == {0, 1}                 \* y[i]
Gaps == {BarMs, MsPerDay}        \* open_time_ms distance to the previous row
FirstOpenTime == MsPerDay - 2 * BarMs

VARIABLES
    params,             \* the keyword arguments of this run
    nrows,              \* len(X)
    pc,                 \* "features", "loop", "curves", "done"
    i,                  \* rows examined so far (the loop index)
    row,                \* the row examined last: timestamps[i], model_probs[i], yes_price, y[i]
    balance,
    peak_balance,
    daily_start,        \* dict: UTC day -> balance at the day's first trade
    trades,             \* the ledger
    consecutive_losses,
    stopped,
    stop_reason,
    equity_curve,       \* the returned dict, valid once pc = "done"
    drawdown_curve,
    stats

\* The live decision path (execution/trade_executor.py).
VARIABLES
    ps,                 \* the PaperTradingState
    call                \* the last call made on the decision functions, with its result

\* The feature builder and the paper signal built on it.
VARIABLES
    aligned,            \* get_aligned_data(): candles with their yes_price
    fpc,                \* position in run_paper_signal / build_features
    stacked,            \* X, y, timestamps before the non-finite rows are dropped
    feat,               \* X, y, timestamps as build_features returns them
    paper               \* the dict run_paper_signal returns

\* The indicator functions of features/feature_engineering.py.
VARIABLES
    ind_series,         \* the series an indicator is applied to
    ind_period,         \* its period argument
    ind_out             \* what the indicator returned

\* One trade of the simulator in double precision.
VARIABLES
    fl                  \* the floats of the trade and the position in it

\* The SQLite database (data/database.py) and its callers.
VARIABLES
    binance_klines,     \* table binance_klines
    polymarket_prices,  \* table polymarket_prices
    dbres               \* the last call on the database and what it returned

\* The Polymarket client (data/polymarket_client.py).
VARIABLES
    pm                  \* fetch_market_prices: the market, the requests, the result

\* The Binance client (data/binance_client.py).
VARIABLES
    bn                  \* fetch_klines_range: the exchange's klines, the paging, the result

backtestVars == << params, nrows, pc, i, row, balance, peak_balance, daily_start, trades,
                   consecutive_losses, stopped, stop_reason, equity_curve, drawdown_curve,
                   stats >>
decisionVars == << ps, call >>
featureVars == << aligned, fpc, stacked, feat, paper >>

indicatorVars == << ind_series, ind_period, ind_out >>
floatVars == << fl >>
dataVars == << binance_klines, polymarket_prices, dbres >>
polymarketVars == << pm >>
binanceVars == << bn >>
restVars == << indicatorVars, floatVars, dataVars, polymarketVars, binanceVars >>

vars == << backtestVars, decisionVars, featureVars, restVars >>

\* What a run of the simulator leaves alone.
offBacktest == << decisionVars, featureVars, restVars >>

\* The indicators, the double-precision trade, the database and the
\* Polymarket client are not in use.
IndicatorsOff == ind_series = << >> /\ ind_period = 0 /\ ind_out = << >>
FloatOff == fl = << >>
DataOff == binance_klines = << >> /\ polymarket_prices = {} /\ dbres = << >>
PolymarketOff == pm = << >>
BinanceOff == bn = << >>
RestOff == IndicatorsOff /\ FloatOff /\ DataOff /\ PolymarketOff /\ BinanceOff

runState == << balance, peak_balance, daily_start, trades, consecutive_losses,
               stopped, stop_reason >>
returned == << equity_curve, drawdown_curve, stats >>

\* ------------------------------------------------------- pure expressions
\* _ms_to_date: the UTC calendar day of a millisecond timestamp; the
\* "%Y-%m-%d" string is one-to-one with the day number since the epoch.
MsToDate(ms) == ms \div MsPerDay

\* market_lookup value of a row: (r.get("yes_price") or 0.5)
MarketLookup(yes_price) == IF yes_price = None \/ yes_price = 0 THEN 50 ELSE yes_price

\* Mutant of EdgeOf: the operands are swapped.
EdgeOfSwapped(model_prob, market_prob) == market_prob - model_prob

\* edge = model_prob - market_prob
EdgeOf(model_prob, market_prob) == model_prob - market_prob

\* Mutant of EdgeTooSmall: an edge equal to the threshold is skipped too.
EdgeTooSmallOrEqual(edge, edge_threshold) == edge <= edge_threshold

\* if edge < edge_threshold: continue
EdgeTooSmall(edge, edge_threshold) == edge < edge_threshold

\* position = min(max_risk_pct * balance, max_trade_usd)
Min(a, b) == IF a <= b THEN a ELSE b
Max(a, b) == IF a >= b THEN a ELSE b

\* Mutant of Position: the cap max_trade_usd is not applied.
PositionNoCap(bal, max_risk_pct, max_trade_usd) ==
    (max_risk_pct.num * bal) \div max_risk_pct.den

Position(bal, max_risk_pct, max_trade_usd) ==
    Min((max_risk_pct.num * bal) \div max_risk_pct.den, max_trade_usd)

\* if position < 0.01: continue
PositionTooSmall(position) == position < MinPosition

\* Mutant of PnlOf: a loss costs twice the position.
PnlOfDoubleLoss(position, outcome) == IF outcome = 1 THEN position ELSE -(2 * position)

\* pnl = position if outcome == 1 else -position
PnlOf(position, outcome) == IF outcome = 1 THEN position ELSE -position

\* Mutant of NextLosses: a winning trade does not reset the counter.
NextLossesNoReset(losses, outcome) == IF outcome = 0 THEN losses + 1 ELSE losses

\* consecutive_losses after the trade (lines 131..137)
NextLosses(losses, outcome) == IF outcome = 0 THEN losses + 1 ELSE 0

\* outcome == 0 and consecutive_losses >= consecutive_loss_stop (lines 131..133)
LossStreakHit(losses_after, outcome, limit) == outcome = 0 /\ losses_after >= limit

\* Mutant of DailyStartAfter: every trade overwrites its day's entry.
DailyStartOverwritten(ds, date, bal_before) ==
    [d \in DOMAIN ds \cup {date} |-> IF d = date THEN bal_before ELSE ds[d]]

\* daily_start after the trade (lines 140..141)
DailyStartAfter(ds, date, bal_before) ==
    IF date \in DOMAIN ds THEN ds
    ELSE [d \in DOMAIN ds \cup {date} |-> IF d = date THEN bal_before ELSE ds[d]]

\* Mutant of DrawdownHit: the cap itself is not yet a stop (> for >=).
DrawdownHitStrict(day_start, bal, cap) ==
    IF day_start > 0
    THEN (day_start - bal) * cap.den > cap.num * day_start
    ELSE 0 > cap.num

\* Mutant of DrawdownHit: a move of the cap's size in either direction stops.
DrawdownHitEitherWay(day_start, bal, cap) ==
    IF day_start > 0
    THEN \/ (day_start - bal) * cap.den >= cap.num * day_start
         \/ (bal - day_start) * cap.den >= cap.num * day_start
    ELSE 0 >= cap.num

\* daily_dd = (day_start - balance) / day_start if day_start > 0 else 0
\* daily_dd >= daily_drawdown_cap
DrawdownHit(day_start, bal, cap) ==
    IF day_start > 0
    THEN (day_start - bal) * cap.den >= cap.num * day_start
    ELSE 0 >= cap.num

ReasonLossStreak == "2 consecutive losses"
ReasonDrawdown == "daily drawdown >= 10%"

\* ------------------------------------------------- risk/risk_manager.py
RiskDust == Scale \div 100       \* the literal 0.01 of can_trade

\* position_size
PositionSize(bal) == Min((MAX_RISK_PCT.num * bal) \div MAX_RISK_PCT.den, MAX_TRADE_USD)

\* Mutant of HasEdge: an edge equal to the threshold is no edge.
HasEdgeStrict(model_prob, market_prob) == (model_prob - market_prob) > EDGE_THRESHOLD

\* has_edge
HasEdge(model_prob, market_prob) == (model_prob - market_prob) >= EDGE_THRESHOLD

\* should_stop_consecutive_losses
ShouldStopConsecutiveLosses(losses) == losses >= CONSECUTIVE_LOSS_STOP

\* should_stop_daily_drawdown
ShouldStopDailyDrawdown(day_start_balance, current_balance) ==
    IF day_start_balance <= 0 THEN FALSE
    ELSE (day_start_balance - current_balance) * DAILY_DRAWDOWN_CAP_PCT.den
             >= DAILY_DRAWDOWN_CAP_PCT.num * day_start_balance

Decision(allowed, reason) == [allowed |-> allowed, reason |-> reason]

\* Mutant of CanTrade: the loss streak is tested before the balance.
CanTradeStreakFirst(bal, losses, day_start_balance) ==
    IF ShouldStopConsecutiveLosses(losses)
    THEN Decision(FALSE, "stopped: 2 consecutive losses")
    ELSE IF bal < RiskDust
    THEN Decision(FALSE, "insufficient balance")
    ELSE IF day_start_balance > 0 /\ ShouldStopDailyDrawdown(day_start_balance, bal)
    THEN Decision(FALSE, "stopped: daily drawdown >= 10%")
    ELSE IF PositionSize(bal) < RiskDust
    THEN Decision(FALSE, "position size too small")
    ELSE Decision(TRUE, "ok")

\* can_trade
CanTrade(bal, losses, day_start_balance) ==
    IF bal < RiskDust
    THEN Decision(FALSE, "insufficient balance")
    ELSE IF ShouldStopConsecutiveLosses(losses)
    THEN Decision(FALSE, "stopped: 2 consecutive losses")
    ELSE IF day_start_balance > 0 /\ ShouldStopDailyDrawdown(day_start_balance, bal)
    THEN Decision(FALSE, "stopped: daily drawdown >= 10%")
    ELSE IF PositionSize(bal) < RiskDust
    THEN Decision(FALSE, "position size too small")
    ELSE Decision(TRUE, "ok")


\* ------------------------------------------------------------------- Init
Init ==
    /\ params \in ParamSets
    /\ nrows \in 0..MaxRows
    /\ pc = "features"
    /\ i = 0
    /\ row = [open_time_ms |-> FirstOpenTime, model_prob |-> 0, yes_price |-> None, y |-> 0]
    /\ balance = params.initial_balance
    /\ peak_balance = params.initial_balance
    /\ daily_start = << >>
    /\ trades = << >>
    /\ consecutive_losses = 0
    /\ stopped = FALSE
    /\ stop_reason = ""
    /\ equity_curve = << >>
    /\ drawdown_curve = << >>
    /\ stats = << >>
    /\ ps = << >>
    /\ call = << >>
    /\ aligned = << >>
    /\ fpc = "off"
    /\ stacked = << >>
    /\ feat = << >>
    /\ paper = << >>
    /\ RestOff

\* ------------------------------------------------ curves and statistics
\* Mutant of EquityCurve: the leading initial balance is left out.
EquityCurveNoLead(initial_balance, ledger) ==
    [k \in 1..Len(ledger) |-> ledger[k].balance_after]

\* equity_curve = [initial_balance] + [t.balance_after for t in trades]
EquityCurve(initial_balance, ledger) ==
    << initial_balance >> \o [k \in 1..Len(ledger) |-> ledger[k].balance_after]

\* The loop of lines 156..159 from index k of the equity curve on, with the
\* running peak carried along.
RECURSIVE DrawdownTail(_, _, _)
DrawdownTail(peak, eq, k) ==
    IF k > Len(eq) THEN << >>
    ELSE LET p == Max(peak, eq[k])
             dd == IF p > 0 THEN Frac(p - eq[k], p) ELSE Rat(0, 1)
         IN  << dd >> \o DrawdownTail(p, eq, k + 1)

\* peak = initial_balance; drawdown_curve = [0.0]; for b in equity_curve[1:] ...
DrawdownCurve(initial_balance, eq) == << Rat(0, 1) >> \o DrawdownTail(initial_balance, eq, 2)

RECURSIVE SumPnl(_)
SumPnl(ledger) == IF Len(ledger) = 0 THEN 0 ELSE ledger[1].pnl + SumPnl(Tail(ledger))

RECURSIVE MaxFrac(_)
MaxFrac(fs) ==
    IF Len(fs) = 1 THEN fs[1]
    ELSE LET m == MaxFrac(Tail(fs)) IN IF FracLeq(m, fs[1]) THEN fs[1] ELSE m

Wins(ledger) == Cardinality({k \in 1..Len(ledger) : ledger[k].outcome = 1})

\* _compute_stats
ComputeStats(ledger, initial_balance, eq, dc) ==
    IF Len(ledger) = 0
    THEN [ total_trades  |-> 0,
           wins          |-> 0,
           losses        |-> 0,
           win_rate      |-> Rat(0, 1),
           total_pnl     |-> 0,
           final_balance |-> initial_balance,
           max_drawdown  |-> Rat(0, 1) ]
    ELSE [ total_trades  |-> Len(ledger),
           wins          |-> Wins(ledger),
           losses        |-> Len(ledger) - Wins(ledger),
           win_rate      |-> Frac(Wins(ledger), Len(ledger)),
           total_pnl     |-> SumPnl(ledger),
           final_balance |-> eq[Len(eq)],
           max_drawdown  |-> IF Len(dc) > 0 THEN MaxFrac(dc) ELSE Rat(0, 1) ]

\* stats["stop_reason"] = stop_reason
WithStopReason(s, reason) ==
    [k \in DOMAIN s \cup {"stop_reason"} |-> IF k = "stop_reason" THEN reason ELSE s[k]]

\* ---------------------------------------------------------------- actions
\* Lines 69..71: build_features gave no rows; the empty result is returned.
ReturnEmpty ==
    /\ pc = "features"
    /\ nrows = 0
    /\ pc' = "done"
    /\ equity_curve' = << >>
    /\ drawdown_curve' = << >>
    /\ stats' = << >>
    /\ UNCHANGED << params, nrows, i, row, runState >>
    /\ UNCHANGED offBacktest

\* Lines 73..96: there are rows; the run state is set up and the loop entered.
EnterLoop ==
    /\ pc = "features"
    /\ nrows > 0
    /\ pc' = "loop"
    /\ balance' = params.initial_balance
    /\ peak_balance' = params.initial_balance
    /\ daily_start' = << >>
    /\ trades' = << >>
    /\ consecutive_losses' = 0
    /\ stopped' = FALSE
    /\ stop_reason' = ""
    /\ UNCHANGED << params, nrows, i, row, returned >>
    /\ UNCHANGED offBacktest

\* The rows build_features can put at index i: open_time_ms ascending.
NextRows ==
    { [open_time_ms |-> row.open_time_ms + g, model_prob |-> m, yes_price |-> yp, y |-> lab] :
        g \in Gaps, m \in ModelProbs, yp \in YesPrices, lab \in Labels }

RowEdge(r) == EdgeOf(r.model_prob, MarketLookup(r.yes_price))

\* Mutant of LoopRunning: the "if stopped: break" of lines 99..100 is missing.
LoopRunningNoBreak == pc = "loop" /\ i < nrows

\* Lines 98..100: the loop body runs for row i unless the stop flag is set.
LoopRunning == pc = "loop" /\ i < nrows /\ ~stopped

\* Lines 99..100: the stop flag is set; the loop is left.
LoopBreak ==
    /\ pc = "loop"
    /\ i < nrows
    /\ stopped
    /\ pc' = "curves"
    /\ UNCHANGED << params, nrows, i, row, runState, returned >>
    /\ UNCHANGED offBacktest

\* Mutant of LoopEnd: the exhausted loop is not left.
LoopEndStay ==
    /\ pc = "loop"
    /\ i = nrows
    /\ UNCHANGED vars

\* range(len(X)) is exhausted.
LoopEnd ==
    /\ pc = "loop"
    /\ i = nrows
    /\ pc' = "curves"
    /\ UNCHANGED << params, nrows, i, row, runState, returned >>
    /\ UNCHANGED offBacktest

\* Lines 101..106: the row's edge is below the threshold.
SkipEdge ==
    /\ LoopRunning
    /\ \E r \in NextRows :
        /\ EdgeTooSmall(RowEdge(r), params.edge_threshold)
        /\ row' = r
    /\ i' = i + 1
    /\ UNCHANGED << params, nrows, pc, runState, returned >>
    /\ UNCHANGED offBacktest

\* Lines 101..110: the edge suffices, the position is below 0.01.
SkipPosition ==
    /\ LoopRunning
    /\ \E r \in NextRows :
        /\ ~EdgeTooSmall(RowEdge(r), params.edge_threshold)
        /\ row' = r
    /\ PositionTooSmall(Position(balance, params.max_risk_pct, params.max_trade_usd))
    /\ i' = i + 1
    /\ UNCHANGED << params, nrows, pc, runState, returned >>
    /\ UNCHANGED offBacktest

\* Mutant of StopReasonAfter: the loss-streak reason is not overwritten.
StopReasonStreakWins(streak, dd, old) ==
    IF streak THEN ReasonLossStreak ELSE IF dd THEN ReasonDrawdown ELSE old

\* stop_reason after the two checks of lines 131..146, in the code's order.
StopReasonAfter(streak, dd, old) ==
    IF dd THEN ReasonDrawdown ELSE IF streak THEN ReasonLossStreak ELSE old

\* Lines 101..146: the row is traded.
TakeTrade ==
    /\ LoopRunning
    /\ \E r \in NextRows :
        LET market_prob == MarketLookup(r.yes_price)
            edge == EdgeOf(r.model_prob, market_prob)
            position == Position(balance, params.max_risk_pct, params.max_trade_usd)
            outcome == r.y
            pnl == PnlOf(position, outcome)
            bal == balance + pnl
            losses == NextLosses(consecutive_losses, outcome)
            streak == LossStreakHit(losses, outcome, params.consecutive_loss_stop)
            date_str == MsToDate(r.open_time_ms)
            ds == DailyStartAfter(daily_start, date_str, bal - pnl)
            dd == DrawdownHit(ds[date_str], bal, params.daily_drawdown_cap)
        IN  /\ ~EdgeTooSmall(edge, params.edge_threshold)
            /\ ~PositionTooSmall(position)
            /\ row' = r
            /\ balance' = bal
            /\ peak_balance' = Max(peak_balance, bal)
            /\ trades' = Append(trades,
                   [ open_time_ms              |-> r.open_time_ms,
                     model_prob                |-> r.model_prob,
                     market_prob               |-> market_prob,
                     edge                      |-> edge,
                     position_usd              |-> position,
                     outcome                   |-> outcome,
                     pnl                       |-> pnl,
                     balance_after             |-> bal,
                     consecutive_losses_before |-> consecutive_losses ])
            /\ consecutive_losses' = losses
            /\ daily_start' = ds
            /\ stopped' = (stopped \/ streak \/ dd)
            /\ stop_reason' = StopReasonAfter(streak, dd, stop_reason)
    /\ i' = i + 1
    /\ UNCHANGED << params, nrows, pc, returned >>
    /\ UNCHANGED offBacktest

\* Lines 148..163: the curves and the statistics are built and returned.
Finish ==
    /\ pc = "curves"
    /\ pc' = "done"
    /\ LET eq == EquityCurve(params.initial_balance, trades)
           dc == DrawdownCurve(params.initial_balance, eq)
       IN  /\ equity_curve' = eq
           /\ drawdown_curve' = dc
           /\ stats' = WithStopReason(ComputeStats(trades, params.initial_balance, eq, dc),
                                      stop_reason)
    /\ UNCHANGED << params, nrows, i, row, runState >>
    /\ UNCHANGED offBacktest

Next ==
    \/ ReturnEmpty
    \/ EnterLoop
    \/ LoopBreak
    \/ LoopEnd
    \/ SkipEdge
    \/ SkipPosition
    \/ TakeTrade
    \/ Finish

Spec == Init /\ [][Next]_vars

\* The steps of the replay loop of lines 98..146 and of the set-up before it.
ReplayStep ==
    \/ ReturnEmpty
    \/ EnterLoop
    \/ LoopBreak
    \/ LoopEnd
    \/ SkipEdge
    \/ SkipPosition
    \/ TakeTrade

\* run_backtest is one synchronous call: a step of the replay that can be
\* taken is taken.
SpecLive == Init /\ [][Next]_vars /\ WF_vars(ReplayStep)

\* --------------------------------------------------------- sanity of units
\* No product of the model loses digits: every position is an exact
\* multiple of the money unit.
ExactArithmetic ==
    (pc = "loop") => (params.max_risk_pct.num * balance) % params.max_risk_pct.den = 0

\* ============================================ execution/trade_executor.py
\* The live (paper) decision path.  generate_signal and record_paper_trade
\* take the PaperTradingState as an argument; its fields are plain public
\* attributes, so the calls are checked over every state of the bounded
\* sets below, the freshly constructed one included.

MaxLossCount == 3       \* consecutive_losses ranges over 0..MaxLossCount
MaxSignals == 1         \* entries of trades_log

Days == {0, 1}          \* UTC days, as MsToDate numbers them
PaperBalances == {Scale \div 200, Scale \div 20, Scale \div 10,
                  90 * Scale, 95 * Scale, INITIAL_BALANCE}
DayStartValues == {0, INITIAL_BALANCE}
MarketProbs == {50, 64}

\* The daily_start dictionaries: day -> balance at the start of that day.
PaperDailyStarts == UNION { [D -> DayStartValues] : D \in {{}, {0}, {0, 1}} }

\* PaperTradingState.__init__
PaperTradingState(initial_balance) ==
    [balance |-> initial_balance,
     consecutive_losses |-> 0,
     daily_start |-> << >>,
     trades_log |-> << >>]

PaperStates ==
    { [balance |-> b, consecutive_losses |-> l, daily_start |-> ds, trades_log |-> << >>] :
        b \in PaperBalances, l \in 0..MaxLossCount, ds \in PaperDailyStarts }

\* An f-string of a float below one that has at most two decimals:
\* 0.06 prints as "0.06", 0.2 as "0.2".
FormatHundredths(h) ==
    IF h % 10 = 0 THEN "0." \o ToString(h \div 10)
    ELSE IF h < 10 THEN "0.0" \o ToString(h)
    ELSE "0." \o ToString(h)

Signal(signal, position_usd, reason) ==
    [signal |-> signal, position_usd |-> position_usd, reason |-> reason]

\* Lines 88..91: today has a day-start entry and the drawdown from it is at
\* or over the cap.
LiveDrawdownHit(state, today) ==
    /\ today \in DOMAIN state.daily_start
    /\ LET day_start == state.daily_start[today]
       IN  IF day_start > 0
           THEN (day_start - state.balance) * DAILY_DRAWDOWN_CAP_PCT.den
                    >= DAILY_DRAWDOWN_CAP_PCT.num * day_start
           ELSE 0 >= DAILY_DRAWDOWN_CAP_PCT.num

\* Mutant of GenerateSignal: the daily drawdown is not looked at.
GenerateSignalNoDrawdown(model_prob, market_prob, state, today) ==
    LET edge == model_prob - market_prob
        position == Min((MAX_RISK_PCT.num * state.balance) \div MAX_RISK_PCT.den,
                        MAX_TRADE_USD)
    IN  IF state.consecutive_losses >= CONSECUTIVE_LOSS_STOP
        THEN Signal("SKIP", 0, "stopped: 2 consecutive losses")
        ELSE IF edge < EDGE_THRESHOLD
        THEN Signal("SKIP", 0, "no edge (need >= " \o FormatHundredths(EDGE_THRESHOLD) \o ")")
        ELSE IF position < MinPosition
        THEN Signal("SKIP", 0, "insufficient balance")
        ELSE Signal("BUY_YES", position, "edge ok")

\* Mutant of GenerateSignal: the position size is checked before the edge.
GenerateSignalSizeFirst(model_prob, market_prob, state, today) ==
    LET edge == model_prob - market_prob
        position == Min((MAX_RISK_PCT.num * state.balance) \div MAX_RISK_PCT.den,
                        MAX_TRADE_USD)
    IN  IF state.consecutive_losses >= CONSECUTIVE_LOSS_STOP
        THEN Signal("SKIP", 0, "stopped: 2 consecutive losses")
        ELSE IF LiveDrawdownHit(state, today)
        THEN Signal("SKIP", 0, "stopped: daily drawdown >= 10%")
        ELSE IF position < MinPosition
        THEN Signal("SKIP", 0, "insufficient balance")
        ELSE IF edge < EDGE_THRESHOLD
        THEN Signal("SKIP", 0, "no edge (need >= " \o FormatHundredths(EDGE_THRESHOLD) \o ")")
        ELSE Signal("BUY_YES", position, "edge ok")

\* generate_signal; today is the UTC day of datetime.now().
GenerateSignal(model_prob, market_prob, state, today) ==
    LET edge == model_prob - market_prob
        position == Min((MAX_RISK_PCT.num * state.balance) \div MAX_RISK_PCT.den,
                        MAX_TRADE_USD)
    IN  IF state.consecutive_losses >= CONSECUTIVE_LOSS_STOP
        THEN Signal("SKIP", 0, "stopped: 2 consecutive losses")
        ELSE IF LiveDrawdownHit(state, today)
        THEN Signal("SKIP", 0, "stopped: daily drawdown >= 10%")
        ELSE IF edge < EDGE_THRESHOLD
        THEN Signal("SKIP", 0, "no edge (need >= " \o FormatHundredths(EDGE_THRESHOLD) \o ")")
        ELSE IF position < MinPosition
        THEN Signal("SKIP", 0, "insufficient balance")
        ELSE Signal("BUY_YES", position, "edge ok")

\* The dictionary record_paper_trade appends to state.trades_log; the
\* timestamp is kept as the UTC day of datetime.now().
LogEntry(today, open_time_ms, model_prob, market_prob, sig) ==
    [timestamp |-> today,
     open_time_ms |-> open_time_ms,
     signal |-> sig.signal,
     model_prob |-> model_prob,
     market_prob |-> market_prob,
     edge |-> model_prob - market_prob,
     position_usd |-> sig.position_usd,
     reason |-> sig.reason]

\* Mutant of RecordPaperTrade: recording a refused signal counts as a loss.
RecordPaperTradeCountsLoss(state, today, open_time_ms, model_prob, market_prob, sig) ==
    [state EXCEPT !.trades_log =
                      Append(@, LogEntry(today, open_time_ms, model_prob, market_prob, sig)),
                  !.consecutive_losses = IF sig.signal = "SKIP" THEN @ + 1 ELSE @]

\* record_paper_trade
RecordPaperTrade(state, today, open_time_ms, model_prob, market_prob, sig) ==
    [state EXCEPT !.trades_log =
        Append(@, LogEntry(today, open_time_ms, model_prob, market_prob, sig))]

\* The simulator and the feature pipeline are not running.
BacktestOff ==
    /\ params = DefaultParams
    /\ nrows = 0
    /\ pc = "off"
    /\ i = 0
    /\ row = [open_time_ms |-> FirstOpenTime, model_prob |-> 0, yes_price |-> None, y |-> 0]
    /\ balance = 0
    /\ peak_balance = 0
    /\ daily_start = << >>
    /\ trades = << >>
    /\ consecutive_losses = 0
    /\ stopped = FALSE
    /\ stop_reason = ""
    /\ equity_curve = << >>
    /\ drawdown_curve = << >>
    /\ stats = << >>

FeaturesOff ==
    /\ aligned = << >>
    /\ fpc = "off"
    /\ stacked = << >>
    /\ feat = << >>
    /\ paper = << >>

InitDecision ==
    /\ BacktestOff
    /\ FeaturesOff
    /\ RestOff
    /\ ps \in PaperStates
    /\ call = [op |-> "none"]

\* risk_manager.can_trade applied to the balance and the loss streak of the
\* state and to a day-start balance.
CanTradeCall ==
    /\ \E day_start \in DayStartValues :
          call' = [op |-> "can_trade",
                   balance |-> ps.balance,
                   consecutive_losses |-> ps.consecutive_losses,
                   day_start_balance |-> day_start,
                   result |-> CanTrade(ps.balance, ps.consecutive_losses, day_start)]
    /\ UNCHANGED << ps, backtestVars, featureVars, restVars >>

\* generate_signal applied to the state.
GenerateSignalCall ==
    /\ \E model_prob \in ModelProbs, market_prob \in MarketProbs, today \in Days :
          call' = [op |-> "generate_signal",
                   model_prob |-> model_prob,
                   market_prob |-> market_prob,
                   today |-> today,
                   result |-> GenerateSignal(model_prob, market_prob, ps, today)]
    /\ UNCHANGED << ps, backtestVars, featureVars, restVars >>

\* record_paper_trade applied to the signal just generated, as
\* run_paper_signal does (run_paper_trading.py, lines 75..84).
RecordPaperTradeCall ==
    /\ call.op = "generate_signal"
    /\ Len(ps.trades_log) < MaxSignals
    /\ \E today \in Days :
          ps' = RecordPaperTrade(ps, today, today * MsPerDay,
                                 call.model_prob, call.market_prob, call.result)
    /\ call' = [op |-> "record_paper_trade"]
    /\ UNCHANGED << backtestVars, featureVars, restVars >>

NextDecision ==
    \/ CanTradeCall
    \/ GenerateSignalCall
    \/ RecordPaperTradeCall

SpecDecision == InitDecision /\ [][NextDecision]_vars

\* ======================================= features/feature_engineering.py
\* build_features and, on top of it, run_paper_signal (run_paper_trading.py).
\* A feature row is kept as the index of the bar it was computed at and
\* whether all ten of its values are finite; the values themselves are not
\* modelled.  Bars are indexed from 0 as in the code.  Prices are finite in
\* every drawn input; a volume may be missing (None), which numpy reads as
\* NaN.

MaxBars == 38           \* bars handed to build_features

EMA_FAST == 9
EMA_SLOW == 21
RSI_PERIOD == 14
MACD_FAST == 12
MACD_SLOW == 26
MACD_SIGNAL == 9
ATR_PERIOD == 14

\* The first bar index whose inputs are varied; the bars before it are flat.
TailStart == MACD_SLOW + MACD_SIGNAL - 1

Closes == {100, 101}
Volumes == {None, 1}
LastYesPrices == {None, 64}

FlatBar(idx) ==
    [open_time_ms |-> idx * BarMs, close |-> 100, volume |-> 1, yes_price |-> None]

\* The rows get_aligned_data can return: n bars in time order, flat before
\* TailStart, with a drawn close and volume from there on and a drawn
\* yes_price on the last bar.
AlignedSeqs ==
    UNION { { [j \in 1..n |->
                 IF j - 1 < TailStart
                 THEN [FlatBar(j - 1) EXCEPT !.yes_price =
                          IF j = n THEN yp ELSE None]
                 ELSE [open_time_ms |-> (j - 1) * BarMs,
                       close |-> tail[j - 1].close,
                       volume |-> tail[j - 1].volume,
                       yes_price |-> IF j = n THEN yp ELSE None]] :
              tail \in [TailStart..(n - 1) -> [close : Closes, volume : Volumes]],
              yp \in LastYesPrices } :
            n \in 0..MaxBars }

\* run_paper_trading.py, lines 53..63: the candles without their price.
KlinesOf(rows) ==
    [j \in 1..Len(rows) |->
        [open_time_ms |-> rows[j].open_time_ms,
         close |-> rows[j].close,
         volume |-> rows[j].volume]]

IsFinite(v) == v # None

\* _ema: NaN before index period - 1, and everywhere on a short series.
EmaFinite(n, period, idx) == n >= period /\ idx >= period - 1

\* _rsi: NaN before index period.
RsiFinite(n, idx) == n >= RSI_PERIOD + 1 /\ idx >= RSI_PERIOD

\* _macd: the line is the difference of two EMAs; the signal is an EMA of
\* the line with its NaNs replaced by 0.
MacdLineFinite(n, idx) == EmaFinite(n, MACD_FAST, idx) /\ EmaFinite(n, MACD_SLOW, idx)
MacdSignalFinite(n, idx) == EmaFinite(n, MACD_SIGNAL, idx)

\* _atr: NaN before index period - 1.
AtrFinite(n, idx) == n >= 2 /\ n >= ATR_PERIOD /\ idx >= ATR_PERIOD - 1

\* Lines 131..132: 0 at index 0, else a quotient of the two volumes.
VolChangeFinite(klines, idx) ==
    idx = 0 \/ (IsFinite(klines[idx + 1].volume) /\ IsFinite(klines[idx].volume))

\* Line 164: all ten values of the row of bar idx are finite.
RowFinite(klines, idx) ==
    LET n == Len(klines)
    IN  /\ EmaFinite(n, EMA_FAST, idx)
        /\ EmaFinite(n, EMA_SLOW, idx)
        /\ (idx = 0 \/ (EmaFinite(n, EMA_FAST, idx) /\ EmaFinite(n, EMA_FAST, idx - 1)))
        /\ RsiFinite(n, idx)
        /\ MacdLineFinite(n, idx)
        /\ MacdSignalFinite(n, idx)
        /\ AtrFinite(n, idx)
        /\ VolChangeFinite(klines, idx)

\* ---- where the series are defined, index by index
\* A series is kept as the sequence of its "is finite" flags; position j of
\* the sequence is index j - 1 of the array.  An arithmetic result is finite
\* when its operands are.

\* np.full_like(series, np.nan)
AllNan(n) == [j \in 1..n |-> FALSE]

\* Lines 25..34: result[period - 1] is the mean of the first `period` values,
\* result[i] is computed from series[i] and result[i - 1].
EmaDefined(series, period) ==
    LET n == Len(series)
        result[j \in 1..n] ==
            IF j < period THEN FALSE
            ELSE IF j = period THEN \A k \in 1..period : series[k]
            ELSE series[j] /\ result[j - 1]
    IN  IF n < period THEN AllNan(n) ELSE [j \in 1..n |-> result[j]]

\* Lines 37..54: gains and losses are np.where(deltas > 0, ...), which is 0
\* at a NaN delta, so the averages are finite and result[period:] is.
RsiDefined(closes, period) ==
    LET n == Len(closes)
    IN  IF n < period + 1 THEN AllNan(n) ELSE [j \in 1..n |-> j - 1 >= period]

\* Mutant of NanToNum: the NaNs are kept.
NanToNumKeepsNan(series) == series

\* np.nan_to_num(series, nan=0)
NanToNum(series) == [j \in 1..Len(series) |-> TRUE]

\* Lines 57..69: the line, the signal and the histogram.
MacdDefined(closes, fast, slow, signal) ==
    LET ema_fast == EmaDefined(closes, fast)
        ema_slow == EmaDefined(closes, slow)
        macd_line == [j \in 1..Len(closes) |-> ema_fast[j] /\ ema_slow[j]]
        macd_signal == EmaDefined(NanToNum(macd_line), signal)
    IN  [macd_line |-> macd_line,
         macd_signal |-> macd_signal,
         macd_hist |-> [j \in 1..Len(closes) |-> macd_line[j] /\ macd_signal[j]]]

\* Lines 72..85; tr is finite where high, low, close and the close before
\* are, and those are finite in every drawn input.
AtrDefined(tr, period) ==
    LET n == Len(tr)
        result[j \in 1..n] ==
            IF j < period THEN FALSE
            ELSE IF j = period THEN \A k \in 1..period : tr[k]
            ELSE result[j - 1] /\ tr[j]
    IN  IF n < 2 \/ n < period THEN AllNan(n) ELSE [j \in 1..n |-> result[j]]

\* Lines 110..132 and 147..158: the ten series of the feature matrix.
SeriesDefined(klines) ==
    LET n == Len(klines)
        close_arr == [j \in 1..n |-> IsFinite(klines[j].close)]
        volume_arr == [j \in 1..n |-> IsFinite(klines[j].volume)]
        ema9 == EmaDefined(close_arr, EMA_FAST)
        macd == MacdDefined(close_arr, MACD_FAST, MACD_SLOW, MACD_SIGNAL)
    IN  [returns |-> [j \in 1..n |-> j = 1 \/ (close_arr[j] /\ close_arr[j - 1])],
         ema9 |-> ema9,
         ema21 |-> EmaDefined(close_arr, EMA_SLOW),
         ema_slope |-> [j \in 1..n |-> j = 1 \/ (ema9[j] /\ ema9[j - 1])],
         rsi |-> RsiDefined(close_arr, RSI_PERIOD),
         macd_line |-> macd.macd_line,
         macd_signal |-> macd.macd_signal,
         macd_hist |-> macd.macd_hist,
         atr |-> AtrDefined(close_arr, ATR_PERIOD),
         vol_change |-> [j \in 1..n |-> j = 1 \/ (volume_arr[j] /\ volume_arr[j - 1])]]

\* Mutant of LabelOf: an unchanged close counts as a rise.
LabelOfNonStrict(klines, idx) ==
    IF klines[idx + 2].close >= klines[idx + 1].close THEN 1 ELSE 0

\* Line 137: labels[idx] = (close_arr[idx + 1] > close_arr[idx]).
LabelOf(klines, idx) ==
    IF klines[idx + 2].close > klines[idx + 1].close THEN 1 ELSE 0

\* Mutant of MinLen: the MACD signal period is left out of the warm-up.
MinLenNoSignal == Max(Max(EMA_SLOW, RSI_PERIOD), Max(MACD_SLOW, ATR_PERIOD))

\* Line 140
MinLen == Max(Max(EMA_SLOW, RSI_PERIOD), Max(MACD_SLOW + MACD_SIGNAL, ATR_PERIOD))

\* Lines 102 and 145: the empty result.
EmptyFeatures == [X |-> << >>, y |-> << >>, timestamps |-> << >>]

\* Lines 141..161: rows start_idx .. end_idx - 1, their labels and times.
StackFeatures(klines) ==
    LET start_idx == MinLen
        end_idx == Len(klines) - 1
        rows == end_idx - start_idx
    IN  [X |-> [j \in 1..rows |->
                   [bar |-> start_idx + j - 1,
                    finite |-> RowFinite(klines, start_idx + j - 1)]],
         y |-> [j \in 1..rows |-> LabelOf(klines, start_idx + j - 1)],
         timestamps |-> [j \in 1..rows |-> klines[start_idx + j].open_time_ms]]

\* The indices of st.X, in order, whose row is all finite.
RECURSIVE ValidIndices(_, _)
ValidIndices(st, j) ==
    IF j > Len(st.X) THEN << >>
    ELSE IF st.X[j].finite THEN << j >> \o ValidIndices(st, j + 1)
    ELSE ValidIndices(st, j + 1)

\* Mutant of DropNonFinite: the mask is applied to X and y only.
DropNonFiniteKeepTimes(st) ==
    LET valid == ValidIndices(st, 1)
    IN  [X |-> [j \in 1..Len(valid) |-> st.X[valid[j]]],
         y |-> [j \in 1..Len(valid) |-> st.y[valid[j]]],
         timestamps |-> st.timestamps]

\* Lines 164..167: the same mask is applied to X, y and timestamps.
DropNonFinite(st) ==
    LET valid == ValidIndices(st, 1)
    IN  [X |-> [j \in 1..Len(valid) |-> st.X[valid[j]]],
         y |-> [j \in 1..Len(valid) |-> st.y[valid[j]]],
         timestamps |-> [j \in 1..Len(valid) |-> st.timestamps[valid[j]]]]

\* Either run_paper_signal runs on the database rows, or build_features is
\* called on their candles by another caller (training, the backtest).
InitFeatures ==
    /\ BacktestOff
    /\ RestOff
    /\ aligned \in AlignedSeqs
    /\ paper \in {[status |-> "running"], [status |-> "none"]}
    /\ fpc = IF paper.status = "running" THEN "paper" ELSE "build"
    /\ stacked = EmptyFeatures
    /\ feat = EmptyFeatures
    /\ ps = PaperTradingState(INITIAL_BALANCE)
    /\ call = [op |-> "none"]

\* run_paper_trading.py, lines 50..51
PaperNoData ==
    /\ fpc = "paper"
    /\ aligned = << >>
    /\ paper' = [status |-> "no_data"]
    /\ fpc' = "done"
    /\ UNCHANGED << aligned, stacked, feat, decisionVars, backtestVars, restVars >>

\* run_paper_trading.py, lines 53..64: build_features is called.
PaperBuild ==
    /\ fpc = "paper"
    /\ aligned # << >>
    /\ fpc' = "build"
    /\ UNCHANGED << aligned, stacked, feat, paper, decisionVars, backtestVars, restVars >>

\* Lines 101..102: fewer than two bars.
BuildTooFew ==
    /\ fpc = "build"
    /\ Len(KlinesOf(aligned)) < 2
    /\ feat' = EmptyFeatures
    /\ fpc' = "built"
    /\ UNCHANGED << aligned, stacked, paper, decisionVars, backtestVars, restVars >>

\* Lines 144..145: nothing is left after the warm-up.
BuildWarmupOnly ==
    /\ fpc = "build"
    /\ Len(KlinesOf(aligned)) >= 2
    /\ MinLen >= Len(KlinesOf(aligned)) - 1
    /\ feat' = EmptyFeatures
    /\ fpc' = "built"
    /\ UNCHANGED << aligned, stacked, paper, decisionVars, backtestVars, restVars >>

\* Lines 147..161: X, y and timestamps are stacked.
BuildStack ==
    /\ fpc = "build"
    /\ Len(KlinesOf(aligned)) >= 2
    /\ MinLen < Len(KlinesOf(aligned)) - 1
    /\ stacked' = StackFeatures(KlinesOf(aligned))
    /\ fpc' = "stacked"
    /\ UNCHANGED << aligned, feat, paper, decisionVars, backtestVars, restVars >>

\* Lines 163..170: the non-finite rows are dropped and the result returned.
BuildDrop ==
    /\ fpc = "stacked"
    /\ feat' = DropNonFinite(stacked)
    /\ fpc' = "built"
    /\ UNCHANGED << aligned, stacked, paper, decisionVars, backtestVars, restVars >>

\* run_paper_trading.py, lines 65..66
PaperNoFeatures ==
    /\ fpc = "built"
    /\ paper.status = "running"
    /\ Len(feat.X) = 0
    /\ paper' = [status |-> "no_features"]
    /\ fpc' = "done"
    /\ UNCHANGED << aligned, stacked, feat, decisionVars, backtestVars, restVars >>

\* run_paper_trading.py, line 72
PaperMarketProb(last_row) ==
    IF last_row.yes_price = None \/ last_row.yes_price = 0 THEN 50 ELSE last_row.yes_price

\* run_paper_trading.py, lines 68..94: the model scores X[-1]; the price and
\* the time are read from aligned[-1]; the signal is generated and recorded.
\* The classifier is a file loaded at run time: its score is any value.
PaperSignal ==
    /\ fpc = "built"
    /\ paper.status = "running"
    /\ Len(feat.X) > 0
    /\ \E model_prob \in ModelProbs, today \in Days :
          LET last_row == aligned[Len(aligned)]
              market_prob == PaperMarketProb(last_row)
              open_time_ms == last_row.open_time_ms
              sig == GenerateSignal(model_prob, market_prob, ps, today)
          IN  /\ ps' = RecordPaperTrade(ps, today, open_time_ms, model_prob, market_prob, sig)
              /\ paper' = [status |-> "ok",
                           signal |-> sig.signal,
                           model_prob |-> model_prob,
                           market_prob |-> market_prob,
                           position_usd |-> sig.position_usd,
                           reason |-> sig.reason,
                           open_time_ms |-> open_time_ms]
    /\ fpc' = "done"
    /\ UNCHANGED << aligned, stacked, feat, call, backtestVars, restVars >>

NextFeatures ==
    \/ PaperNoData
    \/ PaperBuild
    \/ BuildTooFew
    \/ BuildWarmupOnly
    \/ BuildStack
    \/ BuildDrop
    \/ PaperNoFeatures
    \/ PaperSignal

SpecFeatures == InitFeatures /\ [][NextFeatures]_vars

\* ================================ feature_engineering.py: _ema and _rsi
\* The two indicators as functions of a series and a period.  Values are
\* exact fractions [num, den] in lowest terms; not-a-number is the fraction
\* with denominator 0.  Indices count from 0 as in the code; entry idx of a
\* Python array is entry idx + 1 of the sequence.

MaxSeries == 4          \* length of the series
MaxPeriod == 3          \* period argument

SeriesValues == {1, 2, 4}

RECURSIVE SeqsUpTo(_)
SeqsUpTo(n) ==
    IF n = 0 THEN {<< >>}
    ELSE SeqsUpTo(n - 1) \cup [1..n -> SeriesValues]

NaN == Rat(0, 0)
IsNaN(v) == v.den = 0
OfInt(n) == Rat(n, 1)

RAdd(a, b) == Frac(a.num * b.den + b.num * a.den, a.den * b.den)
RSub(a, b) == Frac(a.num * b.den - b.num * a.den, a.den * b.den)
RMul(a, b) == Frac(a.num * b.num, a.den * b.den)
RDiv(a, b) == Frac(a.num * b.den, a.den * b.num)

\* np.mean(xs[:count])
RECURSIVE SumFirst(_, _)
SumFirst(xs, count) == IF count = 0 THEN 0 ELSE xs[count] + SumFirst(xs, count - 1)
MeanFirst(xs, count) == Frac(SumFirst(xs, count), count)

\* Mutant of EmaMult: the smoothing factor is 2 / period.
EmaMultPlain(p) == Frac(2, p)

\* Line 30: mult = 2.0 / (period + 1)
EmaMult(p) == Frac(2, p + 1)

\* Lines 27, 31..33: entry idx of the result for a series of at least p values.
RECURSIVE EmaAt(_, _, _)
EmaAt(xs, p, idx) ==
    IF idx < p - 1 THEN NaN
    ELSE IF idx = p - 1 THEN MeanFirst(xs, p)
    ELSE LET prev == EmaAt(xs, p, idx - 1)
         IN  RAdd(RMul(RSub(OfInt(xs[idx + 1]), prev), EmaMult(p)), prev)

\* _ema
Ema(xs, p) ==
    IF Len(xs) < p THEN [j \in 1..Len(xs) |-> NaN]
    ELSE [j \in 1..Len(xs) |-> EmaAt(xs, p, j - 1)]

\* Lines 42..44: deltas[k] = closes[k + 1] - closes[k], split by sign.
GainAt(closes, k) ==
    LET delta == closes[k + 2] - closes[k + 1] IN IF delta > 0 THEN delta ELSE 0
LossAt(closes, k) ==
    LET delta == closes[k + 2] - closes[k + 1] IN IF delta < 0 THEN -delta ELSE 0

AllGains(closes) == [j \in 1..(Len(closes) - 1) |-> GainAt(closes, j - 1)]
AllLosses(closes) == [j \in 1..(Len(closes) - 1) |-> LossAt(closes, j - 1)]

\* Lines 45..51: the smoothed average of moves (the gains or the losses):
\* 0 before index p, the mean of the first p moves at p, then
\* (avg[idx - 1] * (p - 1) + moves[idx - 1]) / p.
RECURSIVE SmoothedAt(_, _, _)
SmoothedAt(moves, p, idx) ==
    IF idx < p THEN OfInt(0)
    ELSE IF idx = p THEN MeanFirst(moves, p)
    ELSE RDiv(RAdd(RMul(SmoothedAt(moves, p, idx - 1), OfInt(p - 1)), OfInt(moves[idx])),
              OfInt(p))

\* Line 53: rs = where(avg_loss == 0, 100.0, avg_gain / avg_loss)
RelativeStrength(avg_gain, avg_loss) ==
    IF avg_loss.num = 0 THEN OfInt(100) ELSE RDiv(avg_gain, avg_loss)

\* Line 54: 100.0 - 100.0 / (1.0 + rs)
RsiOf(rs) == RSub(OfInt(100), RDiv(OfInt(100), RAdd(OfInt(1), rs)))

\* _rsi, with the two smoothed averages it computes on the way.
Rsi(closes, p) ==
    LET n == Len(closes)
        avg_gain == [j \in 1..n |-> IF n < p + 1 THEN OfInt(0)
                                    ELSE SmoothedAt(AllGains(closes), p, j - 1)]
        avg_loss == [j \in 1..n |-> IF n < p + 1 THEN OfInt(0)
                                    ELSE SmoothedAt(AllLosses(closes), p, j - 1)]
    IN  [avg_gain |-> avg_gain,
         avg_loss |-> avg_loss,
         result |-> [j \in 1..n |->
                        IF n < p + 1 \/ j - 1 < p THEN NaN
                        ELSE RsiOf(RelativeStrength(avg_gain[j], avg_loss[j]))]]

InitIndicators ==
    /\ BacktestOff
    /\ FeaturesOff
    /\ FloatOff
    /\ DataOff
    /\ PolymarketOff
    /\ BinanceOff
    /\ ps = << >>
    /\ call = << >>
    /\ ind_series \in SeqsUpTo(MaxSeries)
    /\ ind_period \in 1..MaxPeriod
    /\ ind_out = [fn |-> "none"]

offIndicators == << backtestVars, decisionVars, featureVars, floatVars, dataVars,
                    polymarketVars, binanceVars >>

\* _ema(series, period)
EmaCall ==
    /\ ind_out' = [fn |-> "_ema", result |-> Ema(ind_series, ind_period)]
    /\ UNCHANGED << ind_series, ind_period, offIndicators >>

\* _rsi(closes, period)
RsiCall ==
    /\ ind_out' = [fn |-> "_rsi"] @@ Rsi(ind_series, ind_period)
    /\ UNCHANGED << ind_series, ind_period, offIndicators >>

NextIndicators ==
    \/ EmaCall
    \/ RsiCall

SpecIndicators == InitIndicators /\ [][NextIndicators]_vars

\* ================================ data/database.py, data/data_collector.py
\* The two tables and the calls on them.  binance_klines is the sequence of
\* its rows in id order; polymarket_prices is the set of its rows.  A candle
\* is kept as its open_time_ms and its close, a price row as its market_id,
\* open_time_ms and yes_price.

MaxBatch == 2           \* rows handed to one insert
MaxLimit == 3           \* the limit argument of get_aligned_data

KlineTimes == {0, BarMs}
KlineCloses == {100, 101}
KlineRows == [open_time_ms : KlineTimes, close : KlineCloses]

Markets == {"m1", "m2"}
QuoteOf(market_id) == IF market_id = "m1" THEN 60 ELSE 40
PriceRows ==
    { [market_id |-> m, open_time_ms |-> t, yes_price |-> QuoteOf(m)] :
        m \in Markets, t \in KlineTimes }

\* The price rows of one call: collect_polymarket_prices stores the rows of
\* the markets it found, here at most one.
PriceBatches == {<< >>} \cup { << r >> : r \in PriceRows }

RECURSIVE BatchesOf(_, _)
BatchesOf(rows, n) ==
    IF n = 0 THEN {<< >>} ELSE BatchesOf(rows, n - 1) \cup [1..n -> rows]

\* The candles one collect_binance_klines call fetched, here at most one.
FetchedKlines == {<< >>} \cup { << r >> : r \in KlineRows }

\* Mutant of InsertKline: INSERT OR REPLACE.
InsertKlineOrReplace(table, r) ==
    IF \E k \in 1..Len(table) : table[k].open_time_ms = r.open_time_ms
    THEN [k \in 1..Len(table) |->
             IF table[k].open_time_ms = r.open_time_ms THEN r ELSE table[k]]
    ELSE Append(table, r)

\* INSERT OR IGNORE of one row under UNIQUE(open_time_ms) (config.py line 46).
InsertKline(table, r) ==
    IF \E k \in 1..Len(table) : table[k].open_time_ms = r.open_time_ms
    THEN table
    ELSE Append(table, r)

\* executemany: the rows are inserted one after the other.
RECURSIVE InsertKlines(_, _)
InsertKlines(table, rows) ==
    IF rows = << >> THEN table
    ELSE InsertKlines(InsertKline(table, Head(rows)), Tail(rows))

\* INSERT OR IGNORE of one row under UNIQUE(market_id, open_time_ms)
\* (config.py line 60).
InsertPrice(table, r) ==
    IF \E q \in table : q.market_id = r.market_id /\ q.open_time_ms = r.open_time_ms
    THEN table
    ELSE table \cup {r}

RECURSIVE InsertPrices(_, _)
InsertPrices(table, rows) ==
    IF rows = << >> THEN table
    ELSE InsertPrices(InsertPrice(table, Head(rows)), Tail(rows))

\* Lines 163..171: the WHERE clause of get_aligned_data.
InRange(t, start_time_ms, end_time_ms) ==
    /\ start_time_ms = None \/ t >= start_time_ms
    /\ end_time_ms = None \/ t <= end_time_ms

\* Lines 174..178: binance_klines LEFT JOIN polymarket_prices ON open_time_ms.
\* A candle gives one row per price row of its open time, and one row with
\* NULL prices if there is none.
JoinRows(klines, prices, start_time_ms, end_time_ms) ==
    LET ids == {k \in 1..Len(klines) :
                    InRange(klines[k].open_time_ms, start_time_ms, end_time_ms)}
        pairs == {pr \in ids \X prices :
                    pr[2].open_time_ms = klines[pr[1]].open_time_ms}
        joined == { [id |-> pr[1], open_time_ms |-> klines[pr[1]].open_time_ms,
                     close |-> klines[pr[1]].close,
                     yes_price |-> pr[2].yes_price,
                     market_id |-> pr[2].market_id] : pr \in pairs }
        alone == { [id |-> k, open_time_ms |-> klines[k].open_time_ms,
                    close |-> klines[k].close,
                    yes_price |-> None, market_id |-> "NULL"] :
                      k \in {h \in ids : \A q \in prices :
                                q.open_time_ms # klines[h].open_time_ms} }
    IN  joined \cup alone

\* Lines 179..180: ORDER BY b.open_time_ms ASC LIMIT ?.  Rows of one open
\* time come in an order SQLite is free to choose.
OrderedLimited(rows, limit) ==
    LET m == Min(limit, Cardinality(rows))
    IN  { s \in [1..m -> rows] :
            /\ \A a, b \in 1..m : a < b =>
                  (s[a] # s[b] /\ s[a].open_time_ms <= s[b].open_time_ms)
            /\ \A r \in rows :
                  (\A a \in 1..m : s[a] # r) =>
                      \A a \in 1..m : s[a].open_time_ms <= r.open_time_ms }

\* Line 184: the dicts returned; the id is not selected.
AlignedDict(r) ==
    [open_time_ms |-> r.open_time_ms, close |-> r.close,
     yes_price |-> r.yes_price, market_id |-> r.market_id]

\* The exceptions collect_polymarket_prices can end with; all of them are
\* subclasses of Exception.
FailureKinds == {"ClientError", "TimeoutError", "RuntimeError", "sqlite3.Error"}

\* Mutant of Caught: only client errors are caught.
CaughtClientErrorOnly(kind) == kind = "ClientError"

\* data_collector.py line 160: except Exception
Caught(kind) == kind \in FailureKinds

Idle == [op |-> "none"]

\* No collect_all is waiting between its two stages.
NoCollection == IF dbres.op = "collect_all" THEN dbres.stage = "returned" ELSE TRUE

InitData ==
    /\ BacktestOff
    /\ FeaturesOff
    /\ IndicatorsOff
    /\ FloatOff
    /\ PolymarketOff
    /\ BinanceOff
    /\ ps = << >>
    /\ call = << >>
    /\ binance_klines = << >>
    /\ polymarket_prices = {}
    /\ dbres = Idle

offData == << backtestVars, decisionVars, featureVars, indicatorVars, floatVars,
              polymarketVars, binanceVars >>

\* insert_binance_klines(rows)
InsertBinanceKlines ==
    /\ NoCollection
    /\ \E rows \in BatchesOf(KlineRows, MaxBatch) :
          /\ binance_klines' = InsertKlines(binance_klines, rows)
          /\ dbres' = [op |-> "insert_binance_klines",
                       rows |-> rows,
                       returned |-> Len(InsertKlines(binance_klines, rows))
                                       - Len(binance_klines)]
    /\ UNCHANGED << polymarket_prices, offData >>

\* insert_polymarket_prices(rows)
InsertPolymarketPrices ==
    /\ NoCollection
    /\ \E rows \in PriceBatches :
          /\ polymarket_prices' = InsertPrices(polymarket_prices, rows)
          /\ dbres' = [op |-> "insert_polymarket_prices",
                       returned |-> Cardinality(InsertPrices(polymarket_prices, rows))
                                       - Cardinality(polymarket_prices)]
    /\ UNCHANGED << binance_klines, offData >>

\* get_aligned_data(start_time_ms, end_time_ms, limit)
GetAlignedData ==
    /\ NoCollection
    /\ \E start_time_ms \in {None, BarMs}, end_time_ms \in {None, 0},
          limit \in 1..MaxLimit :
          \E s \in OrderedLimited(JoinRows(binance_klines, polymarket_prices,
                                           start_time_ms, end_time_ms), limit) :
              dbres' = [op |-> "get_aligned_data",
                        start_time_ms |-> start_time_ms,
                        end_time_ms |-> end_time_ms,
                        limit |-> limit,
                        returned |-> [j \in 1..Len(s) |-> AlignedDict(s[j])]]
    /\ UNCHANGED << binance_klines, polymarket_prices, offData >>

\* collect_all, lines 156..157: the candles fetched are inserted; the count
\* is kept while collect_polymarket_prices is awaited.
CollectBinance ==
    /\ NoCollection
    /\ \E rows \in FetchedKlines :
          /\ binance_klines' = InsertKlines(binance_klines, rows)
          /\ dbres' = [op |-> "collect_all",
                       stage |-> "polymarket",
                       binance_count |-> Len(InsertKlines(binance_klines, rows))
                                            - Len(binance_klines)]
    /\ UNCHANGED << polymarket_prices, offData >>

\* collect_all, line 157: collect_binance_klines raises; nothing catches it.
CollectBinanceFails ==
    /\ NoCollection
    /\ \E kind \in FailureKinds :
          dbres' = [op |-> "collect_all",
                    stage |-> "returned",
                    raised |-> kind,
                    failure |-> "none",
                    returned |-> None]
    /\ UNCHANGED << binance_klines, polymarket_prices, offData >>

\* collect_all, lines 158..159 and 163: collect_polymarket_prices returns
\* the number of price rows it inserted.
CollectPolymarket ==
    /\ dbres.op = "collect_all"
    /\ dbres.stage = "polymarket"
    /\ \E rows \in PriceBatches :
          /\ polymarket_prices' = InsertPrices(polymarket_prices, rows)
          /\ dbres' = [op |-> "collect_all",
                       stage |-> "returned",
                       raised |-> "no",
                       failure |-> "none",
                       returned |->
                           [binance_inserted |-> dbres.binance_count,
                            polymarket_inserted |->
                                Cardinality(InsertPrices(polymarket_prices, rows))
                                    - Cardinality(polymarket_prices)]]
    /\ UNCHANGED << binance_klines, offData >>

\* collect_all, lines 158..163: collect_polymarket_prices raises.  Its one
\* insert is a single transaction that is rolled back (database.py lines
\* 29..31), so no price row is stored.
CollectPolymarketFails ==
    /\ dbres.op = "collect_all"
    /\ dbres.stage = "polymarket"
    /\ \E kind \in FailureKinds :
          dbres' = [op |-> "collect_all",
                    stage |-> "returned",
                    raised |-> IF Caught(kind) THEN "no" ELSE kind,
                    failure |-> kind,
                    returned |-> [binance_inserted |-> dbres.binance_count,
                                  polymarket_inserted |-> 0]]
    /\ UNCHANGED << binance_klines, polymarket_prices, offData >>

NextData ==
    \/ InsertBinanceKlines
    \/ InsertPolymarketPrices
    \/ GetAlignedData
    \/ CollectBinance
    \/ CollectBinanceFails
    \/ CollectPolymarket
    \/ CollectPolymarketFails

SpecData == InitData /\ [][NextData]_vars

\* ============================================= data/polymarket_client.py
\* fetch_market_prices with its two CLOB price requests, attempt by attempt.
\* Prices are in ten-thousandths, the precision of the round(_, 4) of lines
\* 170..171.  POLYMARKET_MAX_RETRIES is imported from config (line 19) and
\* has no value there; the model takes any value from 1 to MaxRetries.

MaxRetries == 2

PriceOne == 10000
GammaPrices == {<< None, None >>, << 6000, 4000 >>, << 6000, None >>}
ClobPrices == {0, 5500}

\* fetch_clob_price was not called for the side.
NotAsked == None - 1

\* Lines 44 and 49..50: what _request_with_retry raises once every attempt
\* has failed.
RetryRaises(last_err) == last_err

\* Line 44: the exceptions _request_with_retry catches and retries.
Retried == {"ClientError", "TimeoutError"}

\* Mutant of SleepsAfter: every failed attempt is followed by a sleep.
SleepsAfterEvery(attempt, retries) == 1

\* Lines 46..47: the number of sleeps after the failure of attempt number
\* `attempt` of range(retries).
SleepsAfter(attempt, retries) == IF attempt < retries - 1 THEN 1 ELSE 0

\* No call of _request_with_retry has ended yet.
NoRequest == [attempts |-> 0, sleeps |-> 0, errors |-> << >>,
              result |-> "none", error |-> "none"]

\* A call of _request_with_retry that ended after `attempts` attempts and
\* `sleeps` sleeps, whose failed attempts raised `errors`; result is
\* "returned" or "raised", error what it raised.
Request(attempts, sleeps, errors, result, error) ==
    [attempts |-> attempts, sleeps |-> sleeps, errors |-> errors,
     result |-> result, error |-> error]

\* Line 133: the exceptions fetch_clob_price turns into None.
ClobCaught(kind) == kind \in {"ClientError", "KeyError", "ValueError", "TypeError"}

\* Lines 161..164: the missing side is 1.0 - (other or 0).
Complement(price) == PriceOne - price

\* The None of line 159, as a value comparable with the dict of line 166.
ReturnedNone == [none |-> TRUE]

\* Lines 158..172: the value returned from the two prices.
MarketPrices(yes_price, no_price) ==
    IF yes_price = None /\ no_price = None THEN ReturnedNone
    ELSE [yes_price |-> IF yes_price = None THEN Complement(no_price) ELSE yes_price,
          no_price |-> IF no_price = None
                       THEN Complement(IF yes_price = None
                                       THEN Complement(no_price) ELSE yes_price)
                       ELSE no_price]

InitPolymarket ==
    /\ BacktestOff
    /\ FeaturesOff
    /\ IndicatorsOff
    /\ FloatOff
    /\ DataOff
    /\ BinanceOff
    /\ ps = << >>
    /\ call = << >>
    /\ \E retries \in 1..MaxRetries, has_yes_id, has_no_id \in BOOLEAN,
          gamma \in GammaPrices :
          pm = [pc |-> "start", retries |-> retries,
                yes_id |-> has_yes_id, no_id |-> has_no_id,
                gamma_yes |-> gamma[1], gamma_no |-> gamma[2],
                yes_price |-> None, no_price |-> None,
                live_yes |-> NotAsked, live_no |-> NotAsked,
                attempt |-> 0, last_err |-> "none",
                sleeps |-> 0, errors |-> << >>, request |-> NoRequest,
                raised |-> "no", returned |-> ReturnedNone]

offPolymarket == << backtestVars, decisionVars, featureVars, indicatorVars,
                    floatVars, dataVars, binanceVars >>

\* The side whose CLOB price is asked for next.
NextSide(side) == IF side = "yes" THEN "no" ELSE "return"

HasToken(side) == IF side = "yes" THEN pm.yes_id ELSE pm.no_id

\* fetch_clob_price gave this value (a price or None) for the side.
ClobGave(side, live, request) ==
    IF side = "yes"
    THEN [pm EXCEPT !.pc = NextSide(side), !.attempt = 0, !.last_err = "none",
                    !.sleeps = 0, !.errors = << >>, !.request = request,
                    !.live_yes = live,
                    !.yes_price = IF live = None THEN @ ELSE live]
    ELSE [pm EXCEPT !.pc = NextSide(side), !.attempt = 0, !.last_err = "none",
                    !.sleeps = 0, !.errors = << >>, !.request = request,
                    !.live_no = live,
                    !.no_price = IF live = None THEN @ ELSE live]

\* Lines 144..145: the token ids and the Gamma prices are parsed.
ParseMarket ==
    /\ pm.pc = "start"
    /\ pm' = [pm EXCEPT !.pc = "yes", !.yes_price = pm.gamma_yes,
                        !.no_price = pm.gamma_no]
    /\ UNCHANGED offPolymarket

\* Lines 147 and 151: no token id, no request.
NoToken ==
    /\ pm.pc \in {"yes", "no"}
    /\ ~HasToken(pm.pc)
    /\ pm' = [pm EXCEPT !.pc = NextSide(pm.pc)]
    /\ UNCHANGED offPolymarket

\* Lines 36..43 and 131..132: an attempt succeeds and the body has a price.
AttemptSucceeds ==
    /\ pm.pc \in {"yes", "no"}
    /\ HasToken(pm.pc)
    /\ pm.attempt < pm.retries
    /\ \E price \in ClobPrices :
          pm' = ClobGave(pm.pc, price,
                         Request(pm.attempt + 1, pm.sleeps, pm.errors, "returned", "none"))
    /\ UNCHANGED offPolymarket

\* Lines 43 and 132..135: an attempt succeeds and the body cannot be read as
\* a price; json() or float() raises a ValueError, which is not retried.
AttemptBadBody ==
    /\ pm.pc \in {"yes", "no"}
    /\ HasToken(pm.pc)
    /\ pm.attempt < pm.retries
    /\ ClobCaught("ValueError")
    /\ "ValueError" \notin Retried
    /\ pm' = ClobGave(pm.pc, None,
                      Request(pm.attempt + 1, pm.sleeps, pm.errors, "raised", "ValueError"))
    /\ UNCHANGED offPolymarket

\* Lines 44..48: an attempt fails with a client error or a timeout and is
\* retried.
AttemptFails ==
    /\ pm.pc \in {"yes", "no"}
    /\ HasToken(pm.pc)
    /\ pm.attempt < pm.retries
    /\ \E kind \in Retried :
          pm' = [pm EXCEPT !.attempt = @ + 1, !.last_err = kind,
                           !.errors = Append(@, kind),
                           !.sleeps = @ + SleepsAfter(pm.attempt, pm.retries)]
    /\ UNCHANGED offPolymarket

\* Lines 49..50 and 133..135: the attempts are used up; the last error is
\* raised, and fetch_clob_price returns None if it catches it.
RetriesExhausted ==
    /\ pm.pc \in {"yes", "no"}
    /\ HasToken(pm.pc)
    /\ pm.attempt = pm.retries
    /\ LET request == Request(pm.attempt, pm.sleeps, pm.errors, "raised",
                              RetryRaises(pm.last_err))
       IN  pm' = IF ClobCaught(RetryRaises(pm.last_err))
                 THEN ClobGave(pm.pc, None, request)
                 ELSE [pm EXCEPT !.pc = "done", !.request = request,
                                 !.raised = RetryRaises(pm.last_err)]
    /\ UNCHANGED offPolymarket

\* Lines 158..172
ReturnPrices ==
    /\ pm.pc = "return"
    /\ pm' = [pm EXCEPT !.pc = "done",
                        !.returned = MarketPrices(pm.yes_price, pm.no_price)]
    /\ UNCHANGED offPolymarket

NextPolymarket ==
    \/ ParseMarket
    \/ NoToken
    \/ AttemptSucceeds
    \/ AttemptBadBody
    \/ AttemptFails
    \/ RetriesExhausted
    \/ ReturnPrices

SpecPolymarket == InitPolymarket /\ [][NextPolymarket]_vars

\* ===================================== backtest/simulator.py in binary64
\* The trade step of run_backtest with the arithmetic Python does: every
\* float is an IEEE 754 double, every operation is rounded to nearest, ties
\* to even.  A natural number is the sequence of its digits in base 2^15,
\* lowest first, without a leading zero; a double is n * 2^(-k) with n odd
\* (or zero), n below 2^53.  The values here stay far from the subnormal
\* and the overflow range.

MantissaBits == 53
LimbBits == 15
Base == 32768
MaxFloatTrades == 2

Limb(a, j) == IF j <= Len(a) THEN a[j] ELSE 0

RECURSIVE Trim(_)
Trim(a) ==
    IF a # << >> /\ a[Len(a)] = 0 THEN Trim(SubSeq(a, 1, Len(a) - 1)) ELSE a

RECURSIVE NatOf(_)
NatOf(n) == IF n = 0 THEN << >> ELSE << n % Base >> \o NatOf(n \div Base)

RECURSIVE AddCarry(_, _, _, _)
AddCarry(a, b, j, c) ==
    IF j > Len(a) /\ j > Len(b)
    THEN IF c = 0 THEN << >> ELSE << c >>
    ELSE LET s == Limb(a, j) + Limb(b, j) + c
         IN  << s % Base >> \o AddCarry(a, b, j + 1, s \div Base)

NAdd(a, b) == Trim(AddCarry(a, b, 1, 0))

\* a - b for a >= b
RECURSIVE SubBorrow(_, _, _, _)
SubBorrow(a, b, j, c) ==
    IF j > Len(a) THEN << >>
    ELSE LET s == Limb(a, j) - Limb(b, j) - c
         IN  << (s + Base) % Base >>
                \o SubBorrow(a, b, j + 1, IF s < 0 THEN 1 ELSE 0)

NSub(a, b) == Trim(SubBorrow(a, b, 1, 0))

\* a * m for one digit m
RECURSIVE MulCarry(_, _, _, _)
MulCarry(a, m, j, c) ==
    IF j > Len(a)
    THEN IF c = 0 THEN << >> ELSE << c >>
    ELSE LET s == a[j] * m + c
         IN  << s % Base >> \o MulCarry(a, m, j + 1, s \div Base)

NMulSmall(a, m) == Trim(MulCarry(a, m, 1, 0))

RECURSIVE NMulFrom(_, _, _)
NMulFrom(a, b, j) ==
    IF j > Len(b) THEN << >>
    ELSE NAdd(NMulSmall(a, b[j]), << 0 >> \o NMulFrom(a, b, j + 1))

NMul(a, b) == NMulFrom(a, b, 1)

RECURSIVE LessFrom(_, _, _)
LessFrom(a, b, j) ==
    IF j = 0 THEN FALSE
    ELSE IF Limb(a, j) # Limb(b, j) THEN Limb(a, j) < Limb(b, j)
    ELSE LessFrom(a, b, j - 1)

NLess(a, b) == LessFrom(a, b, Max(Len(a), Len(b)))

RECURSIVE Pow2(_)
Pow2(r) == IF r = 0 THEN 1 ELSE 2 * Pow2(r - 1)

RECURSIVE SmallBits(_)
SmallBits(n) == IF n = 0 THEN 0 ELSE 1 + SmallBits(n \div 2)

\* The number of binary digits of a.
BitLen(a) ==
    IF a = << >> THEN 0 ELSE LimbBits * (Len(a) - 1) + SmallBits(a[Len(a)])

\* The binary digit of weight 2^(p-1).
Bit(a, p) ==
    (Limb(a, ((p - 1) \div LimbBits) + 1) \div Pow2((p - 1) % LimbBits)) % 2

\* a * 2^s
Shl(a, s) ==
    IF a = << >> THEN a
    ELSE [j \in 1..(s \div LimbBits) |-> 0] \o NMulSmall(a, Pow2(s % LimbBits))

\* a \div 2^s
Shr(a, s) ==
    LET w == s \div LimbBits
        r == s % LimbBits
        high == IF w >= Len(a) THEN << >> ELSE SubSeq(a, w + 1, Len(a))
    IN  Trim([j \in 1..Len(high) |->
                (high[j] \div Pow2(r))
                    + (Limb(high, j + 1) % Pow2(r)) * Pow2(LimbBits - r)])

\* The s lowest binary digits of a are zero.
LowZero(a, s) == \A p \in 1..s : Bit(a, p) = 0

RECURSIVE TrailingZeros(_, _)
TrailingZeros(a, p) == IF Bit(a, p) = 1 THEN p - 1 ELSE TrailingZeros(a, p + 1)

\* Long division of a by d, one binary digit at a time from the highest:
\* st is the quotient and remainder of the digits above weight 2^(p-1).
RECURSIVE DivDown(_, _, _, _)
DivDown(a, d, p, st) ==
    IF p = 0 THEN st
    ELSE LET r2 == NAdd(NMulSmall(st.r, 2), NatOf(Bit(a, p)))
         IN  IF NLess(r2, d)
             THEN DivDown(a, d, p - 1, [q |-> NMulSmall(st.q, 2), r |-> r2])
             ELSE DivDown(a, d, p - 1, [q |-> NAdd(NMulSmall(st.q, 2), << 1 >>),
                                        r |-> NSub(r2, d)])

DivMod(a, d) == DivDown(a, d, BitLen(a), [q |-> << >>, r |-> << >>])

\* The double n * 2^(-k) with n made odd.
Canon(x) ==
    IF x.n = << >> THEN [n |-> << >>, k |-> 0]
    ELSE LET z == TrailingZeros(x.n, 1)
         IN  [n |-> Shr(x.n, z), k |-> x.k - z]

\* Round to nearest, ties to even, to MantissaBits significant digits.
RoundNearestEven(x) ==
    LET s == BitLen(x.n) - MantissaBits
        q == Shr(x.n, s)
        up == Bit(x.n, s) = 1 /\ (~LowZero(x.n, s - 1) \/ Bit(q, 1) = 1)
    IN  IF s <= 0 THEN Canon(x)
        ELSE Canon([n |-> Shl(IF up THEN NAdd(q, << 1 >>) ELSE q, s), k |-> x.k])

\* float(n) for a small integer n
FromInt(n) == Canon([n |-> NatOf(n), k |-> 0])

\* The digits of x at the common exponent k.
AtExp(x, k) == Shl(x.n, k - x.k)

FLess(x, y) ==
    LET k == Max(x.k, y.k) IN NLess(AtExp(x, k), AtExp(y, k))

FMin(x, y) == IF FLess(y, x) THEN y ELSE x

FMax(x, y) == IF FLess(x, y) THEN y ELSE x

\* x + y
FAdd(x, y) ==
    LET k == Max(x.k, y.k)
    IN  RoundNearestEven([n |-> NAdd(AtExp(x, k), AtExp(y, k)), k |-> k])

\* x - y for x >= y
FSub(x, y) ==
    LET k == Max(x.k, y.k)
    IN  RoundNearestEven([n |-> NSub(AtExp(x, k), AtExp(y, k)), k |-> k])

\* x * y
FMul(x, y) == RoundNearestEven([n |-> NMul(x.n, y.n), k |-> x.k + y.k])

\* x / y for y > 0.  The quotient is taken to two digits more than the
\* mantissa and a last digit records a nonzero remainder.
FDiv(x, y) ==
    IF x.n = << >> THEN x
    ELSE LET t == Max(0, MantissaBits + 2 + BitLen(y.n) - BitLen(x.n))
             h == DivMod(Shl(x.n, t), y.n)
             sticky == IF h.r = << >> THEN << >> ELSE << 1 >>
         IN  RoundNearestEven([n |-> NAdd(NMulSmall(h.q, 2), sticky),
                               k |-> t + x.k - y.k + 1])

\* The literals 0.10, 10.0 and 0.01, and the balances tried.
FloatTenth == FDiv(FromInt(1), FromInt(10))
FloatCap == FromInt(MAX_TRADE_USD \div Scale)
FloatCent == FDiv(FromInt(1), FromInt(100))
FloatBalances == { FromInt(b) : b \in 1..(INITIAL_BALANCE \div Scale) }
NoDay == [n |-> << >>, k |-> -1]

\* Lines 143..144: (day_start - balance) / day_start >= daily_drawdown_cap.
\* A balance above the day's start gives a negative quotient.
FloatDrawdownHit(ds, b) ==
    /\ FLess(b, ds)
    /\ ~FLess(FDiv(FSub(ds, b), ds), FloatTenth)

\* A signed double: `neg` is the sign, `abs` the magnitude.  The sum of a
\* value and its opposite is +0.
Signed(neg, abs) == [neg |-> neg /\ abs.n # << >>, abs |-> abs]

\* One step of sum(t.pnl for t in trades), line 174: total + pnl, where pnl
\* is +position or -position (line 117).
FSumStep(total, position, loss) ==
    IF total.neg = loss THEN Signed(loss, FAdd(total.abs, position))
    ELSE IF FLess(total.abs, position)
         THEN Signed(loss, FSub(position, total.abs))
         ELSE Signed(total.neg, FSub(total.abs, position))

\* initial_balance + total_pnl, for a total that leaves a balance >= 0.
FPlusSigned(x, total) ==
    IF total.neg THEN FSub(x, total.abs) ELSE FAdd(x, total.abs)

InitFloat ==
    /\ BacktestOff
    /\ FeaturesOff
    /\ IndicatorsOff
    /\ DataOff
    /\ PolymarketOff
    /\ BinanceOff
    /\ ps = << >>
    /\ call = << >>
    /\ \E b \in FloatBalances :
          fl = [balance |-> b, peak_balance |-> b, day_start |-> NoDay,
                consecutive_losses |-> 0, stopped |-> FALSE, stop_reason |-> "",
                ntrades |-> 0, outcome |-> None, first_of_day |-> FALSE,
                balance_before |-> b, initial_balance |-> b,
                total_pnl |-> Signed(FALSE, FromInt(0))]

offFloat == << backtestVars, decisionVars, featureVars, indicatorVars,
               dataVars, polymarketVars, binanceVars >>

\* Lines 98..146 for a row that has the edge: a trade is taken.  Rows come
\* in time order, so the row's date is either the date of the trade before
\* or a date not yet in daily_start.
FloatTrade ==
    /\ ~fl.stopped
    /\ fl.ntrades < MaxFloatTrades
    /\ \E outcome \in {0, 1}, new_day \in BOOLEAN :
          LET position == FMin(FMul(FloatTenth, fl.balance), FloatCap)
              after == IF outcome = 1 THEN FAdd(fl.balance, position)
                       ELSE FSub(fl.balance, position)
              streak == IF outcome = 0 THEN fl.consecutive_losses + 1 ELSE 0
              streak_hit == outcome = 0 /\ streak >= CONSECUTIVE_LOSS_STOP
              first == new_day \/ fl.day_start = NoDay
              ds == IF first
                    THEN (IF outcome = 1 THEN FSub(after, position)
                          ELSE FAdd(after, position))
                    ELSE fl.day_start
              dd_hit == FloatDrawdownHit(ds, after)
          IN  /\ ~FLess(position, FloatCent)
              /\ fl' = [balance |-> after,
                        peak_balance |-> FMax(fl.peak_balance, after),
                        day_start |-> ds,
                        consecutive_losses |-> streak,
                        stopped |-> streak_hit \/ dd_hit,
                        stop_reason |-> IF dd_hit THEN ReasonDrawdown
                                        ELSE IF streak_hit THEN ReasonLossStreak
                                        ELSE "",
                        ntrades |-> fl.ntrades + 1,
                        outcome |-> outcome,
                        first_of_day |-> first,
                        balance_before |-> fl.balance,
                        initial_balance |-> fl.initial_balance,
                        total_pnl |-> FSumStep(fl.total_pnl, position, outcome = 0)]
    /\ UNCHANGED offFloat

NextFloat == FloatTrade

SpecFloat == InitFloat /\ [][NextFloat]_vars

\* ================================================ data/binance_client.py
\* fetch_klines_range pages through the klines of [start_time_ms,
\* end_time_ms].  Times are in milliseconds from 0 to MaxTime; the page size
\* BINANCE_KLINES_LIMIT is scaled down to MaxPage.
MaxTime == 4
MaxPage == 2

Times == 0..MaxTime

Kline(t) == [open_time_ms |-> t]

\* The klines of the set of open times ts, in ascending order.
RECURSIVE Ascending(_)
Ascending(ts) ==
    IF ts = {} THEN << >>
    ELSE LET t == CHOOSE x \in ts : \A y \in ts : x <= y
         IN  << Kline(t) >> \o Ascending(ts \ {t})

\* What one request answers: the first `limit` klines of the exchange with
\* startTime <= open_time_ms <= endTime, in ascending order.
FetchKlines(exchange, start_time_ms, end_time_ms, limit) ==
    LET inside == Ascending({t \in exchange : start_time_ms <= t /\ t <= end_time_ms})
    IN  SubSeq(inside, 1, Min(limit, Len(inside)))

InitBinance ==
    /\ BacktestOff
    /\ FeaturesOff
    /\ IndicatorsOff
    /\ FloatOff
    /\ DataOff
    /\ PolymarketOff
    /\ ps = << >>
    /\ call = << >>
    /\ \E exchange \in SUBSET Times, start_time_ms, end_time_ms \in Times :
          bn = [pc |-> "while", exchange |-> exchange,
                start_time_ms |-> start_time_ms, end_time_ms |-> end_time_ms,
                current_start |-> start_time_ms, all_klines |-> << >>,
                requests |-> 0]

offBinance == << backtestVars, decisionVars, featureVars, indicatorVars,
                floatVars, dataVars, polymarketVars >>

\* The batch the next request gets.
Batch == FetchKlines(bn.exchange, bn.current_start, bn.end_time_ms, MaxPage)

\* Line 92: `while current_start < end_time_ms` is false; line 104.
WhileExit ==
    /\ bn.pc = "while"
    /\ ~(bn.current_start < bn.end_time_ms)
    /\ bn' = [bn EXCEPT !.pc = "returned"]
    /\ UNCHANGED offBinance

\* Lines 93..99: the request returns nothing, `if not batch: break`.
EmptyBatch ==
    /\ bn.pc = "while"
    /\ bn.current_start < bn.end_time_ms
    /\ Batch = << >>
    /\ bn' = [bn EXCEPT !.pc = "returned", !.requests = @ + 1]
    /\ UNCHANGED offBinance

\* Lines 93..102: the batch is kept and its last kline is at or after
\* end_time_ms, `break`.
LastBatch ==
    /\ bn.pc = "while"
    /\ bn.current_start < bn.end_time_ms
    /\ Batch # << >>
    /\ Batch[Len(Batch)].open_time_ms >= bn.end_time_ms
    /\ bn' = [bn EXCEPT !.pc = "returned", !.requests = @ + 1,
                        !.all_klines = @ \o Batch]
    /\ UNCHANGED offBinance

\* Lines 93..103: the batch is kept and the next page starts one millisecond
\* after its last kline.
NextPage ==
    /\ bn.pc = "while"
    /\ bn.current_start < bn.end_time_ms
    /\ Batch # << >>
    /\ Batch[Len(Batch)].open_time_ms < bn.end_time_ms
    /\ bn' = [bn EXCEPT !.requests = @ + 1,
                        !.all_klines = @ \o Batch,
                        !.current_start = Batch[Len(Batch)].open_time_ms + 1]
    /\ UNCHANGED offBinance

NextBinance ==
    \/ WhileExit
    \/ EmptyBatch
    \/ LastBatch
    \/ NextPage

SpecBinance == InitBinance /\ [][NextBinance]_vars

\* The loop body is one await after another with nothing to wait for but
\* the request's answer, which the exchange is assumed to give.
SpecBinanceFair == SpecBinance /\ WF_vars(NextBinance)

\* ================================================================= claims

\* What the claims read off a row, a trade or a balance, written out
\* independently of the operators of the model.
RowMarket(r) == IF r.yes_price = None \/ r.yes_price = 0 THEN 50 ELSE r.yes_price
RiskShare(bal) == (params.max_risk_pct.num * bal) \div params.max_risk_pct.den
CappedShare(bal) ==
    IF RiskShare(bal) <= params.max_trade_usd THEN RiskShare(bal) ELSE params.max_trade_usd
PreBalance(k) == IF k = 1 THEN params.initial_balance ELSE trades[k - 1].balance_after
UtcDay(ms) == ms \div 86400000
LastTrade == trades[Len(trades)]

\* C1: once the stop flag is set it stays set and the ledger never grows
\* again, whatever rows remain.
C1_StoppedIsTerminal ==
    [][stopped => (stopped' /\ trades' = trades)]_vars

\* C1 witness: a run that returned stopped with feature rows left unexamined.
C1_Witness ==
    pc = "done" /\ stopped /\ i < nrows /\ Len(equity_curve) = Len(trades) + 1

\* C2: examining a row appends a Trade for it if and only if the run is
\* not stopped, the row's edge is >= edge_threshold and the position of the
\* current balance is >= 0.01; no other step touches the ledger.
C2_RowQualifies ==
    /\ ~stopped
    /\ row'.model_prob - RowMarket(row') >= params.edge_threshold
    /\ CappedShare(balance) >= Scale \div 100

C2_RowRecorded ==
    /\ Len(trades') = Len(trades) + 1
    /\ SubSeq(trades', 1, Len(trades)) = trades
    /\ trades'[Len(trades')].open_time_ms = row'.open_time_ms

C2_TradeIffQualifies ==
    [][ /\ (i' = i + 1) => (C2_RowRecorded <=> C2_RowQualifies)
        /\ (i' = i) => (trades' = trades) ]_vars

\* C2 witness: a trade recorded with the edge exactly at the threshold and
\* the position exactly 0.01.
C2_Witness ==
    /\ Len(trades) >= 1
    /\ LastTrade.edge = params.edge_threshold
    /\ LastTrade.position_usd = Scale \div 100

\* C3: every Trade's position_usd is min(max_risk_pct * balance before the
\* trade, max_trade_usd), hence within [0, max_trade_usd].
C3_PositionBounded ==
    \A k \in 1..Len(trades) :
        /\ trades[k].position_usd = CappedShare(PreBalance(k))
        /\ trades[k].position_usd >= 0
        /\ trades[k].position_usd <= RiskShare(PreBalance(k))
        /\ trades[k].position_usd <= params.max_trade_usd

\* C3 witness: a ledger of several trades, one of them cut down to
\* max_trade_usd and one of them below it.
C3_Witness ==
    /\ \E k \in 1..Len(trades) :
          /\ trades[k].position_usd = params.max_trade_usd
          /\ RiskShare(PreBalance(k)) > params.max_trade_usd
    /\ \E k \in 1..Len(trades) : trades[k].position_usd < params.max_trade_usd

\* Number of losing trades in a row that end at ledger index n.
TrailingLosses(n) ==
    LET won == {j \in 1..n : trades[j].outcome = 1}
    IN  IF won = {} THEN n ELSE n - (CHOOSE j \in won : \A h \in won : h <= j)

\* The daily drawdown of ledger entry k against day-start balance d meets the cap.
MeetsCap(d, k) ==
    /\ d > 0
    /\ (d - trades[k].balance_after) * params.daily_drawdown_cap.den
           >= params.daily_drawdown_cap.num * d

TradeDay(k) == UtcDay(trades[k].open_time_ms)

\* C4: with the default arguments, a first losing trade leaves the run
\* active, so that a second losing trade is recorded as well, and it is the
\* second loss that stops the run, with reason "2 consecutive losses".
C4_SecondLossStops ==
    (params = DefaultParams) =>
        /\ (Len(trades) = 1 /\ trades[1].outcome = 0) => ~stopped
        /\ (Len(trades) >= 2 /\ trades[1].outcome = 0 /\ trades[2].outcome = 0) =>
              (Len(trades) = 2 /\ stopped /\ stop_reason = "2 consecutive losses")

\* C5: a recorded trade whose balance is down from its day's start balance
\* d > 0 by at least daily_drawdown_cap stops the run with reason
\* "daily drawdown >= 10%"; it is in the ledger and is its last entry.
C5_DrawdownStopsOnTrade ==
    \A k \in 1..Len(trades) :
        /\ TradeDay(k) \in DOMAIN daily_start
        /\ MeetsCap(daily_start[TradeDay(k)], k) =>
              (k = Len(trades) /\ stopped /\ stop_reason = "daily drawdown >= 10%")

\* C5 witness: a drawdown stop on a trade that is not the first of its day,
\* the day's earlier trade having stayed under the cap.
C5_Witness ==
    /\ Len(trades) >= 2
    /\ stopped
    /\ stop_reason = "daily drawdown >= 10%"
    /\ TradeDay(Len(trades)) = TradeDay(Len(trades) - 1)
    /\ MeetsCap(daily_start[TradeDay(Len(trades))], Len(trades))
    /\ ~MeetsCap(daily_start[TradeDay(Len(trades))], Len(trades) - 1)

\* C6: the counter is the number of losing trades that end the ledger (one
\* more after a loss, 0 after a win); each trade carries the value before it,
\* always below consecutive_loss_stop; the loss that reaches the limit is in
\* the ledger when the stop takes effect.
C6_LossCounter ==
    /\ consecutive_losses = TrailingLosses(Len(trades))
    /\ \A k \in 1..Len(trades) :
          /\ trades[k].consecutive_losses_before = TrailingLosses(k - 1)
          /\ trades[k].consecutive_losses_before < params.consecutive_loss_stop
    /\ (consecutive_losses >= params.consecutive_loss_stop) =>
          (stopped /\ Len(trades) >= 1 /\ LastTrade.outcome = 0)

\* C6 witness: a second loss in a row reaches the limit and is recorded.
C6_Witness ==
    /\ Len(trades) >= 2
    /\ params.consecutive_loss_stop >= 2
    /\ consecutive_losses = params.consecutive_loss_stop
    /\ LastTrade.outcome = 0
    /\ LastTrade.consecutive_losses_before = params.consecutive_loss_stop - 1
    /\ stopped

\* C7: a row that is examined and skipped (edge below the threshold, or
\* position below 0.01) leaves the whole run state as it was.
C7_SkipChangesNothing ==
    [][ ( /\ i' = i + 1
          /\ \/ row'.model_prob - RowMarket(row') < params.edge_threshold
             \/ CappedShare(balance) < Scale \div 100 )
        => UNCHANGED << balance, peak_balance, consecutive_losses, daily_start,
                        stopped, stop_reason, trades >> ]_vars

\* C7 witness: after a trade, a row with sufficient edge was skipped for its
\* position, on a day that has no trade.
C7_Witness ==
    /\ pc = "loop"
    /\ Len(trades) >= 1
    /\ i > Len(trades)
    /\ row.open_time_ms > LastTrade.open_time_ms
    /\ row.model_prob - RowMarket(row) >= params.edge_threshold
    /\ CappedShare(balance) < Scale \div 100
    /\ UtcDay(row.open_time_ms) \notin DOMAIN daily_start

C9_NoTradeSingletons ==
    (pc = "done" /\ Len(trades) = 0) =>
        /\ equity_curve = << params.initial_balance >>
        /\ drawdown_curve = << Rat(0, 1) >>

Ratio(n, d) == IF n = 0 THEN [num |-> 0, den |-> 1]
               ELSE [num |-> n \div GCD(n, d), den |-> d \div GCD(n, d)]

\* The largest of equity_curve[1..k].
RunningPeak(k) ==
    CHOOSE p \in {equity_curve[j] : j \in 1..k} : \A j \in 1..k : equity_curve[j] <= p

\* C11: every returned drawdown curve starts with 0, has one value per
\* equity point, each within [0, 1] and equal to (P - equity) / P for the
\* running peak P of the equity curve (0 if P <= 0).
C11_DrawdownCurveShape ==
    (pc = "done") =>
        /\ Len(drawdown_curve) >= 1
        /\ drawdown_curve[1] = [num |-> 0, den |-> 1]
        /\ Len(drawdown_curve) = Len(equity_curve)
        /\ \A k \in 1..Len(drawdown_curve) :
              /\ drawdown_curve[k].num >= 0
              /\ drawdown_curve[k].num <= drawdown_curve[k].den
              /\ drawdown_curve[k] =
                    IF RunningPeak(k) > 0
                    THEN Ratio(RunningPeak(k) - equity_curve[k], RunningPeak(k))
                    ELSE [num |-> 0, den |-> 1]

\* The same shape for the runs that had at least one feature row.
DrawdownCurveShapeWithRows == (nrows >= 1) => C11_DrawdownCurveShape

StatsKeys ==
    { "total_trades", "wins", "losses", "win_rate", "total_pnl", "final_balance",
      "max_drawdown", "stop_reason" }

\* C12: every returned stats dict, the one of a run without feature rows
\* included, has the eight keys; win_rate is 0 without trades; stop_reason
\* is "" exactly when the run ended without a stop and the stop's reason
\* otherwise.
C12_StatsComplete ==
    (pc = "done") =>
        /\ DOMAIN stats = StatsKeys
        /\ (Len(trades) = 0) => (stats.win_rate.num = 0)
        /\ (stats.stop_reason = "") <=> ~stopped
        /\ stopped => (stats.stop_reason = stop_reason /\ stop_reason # "")

\* The same for the runs that had at least one feature row.
StatsCompleteWithRows == (nrows >= 1) => C12_StatsComplete

\* C17: the market_prob of a recorded Trade is the yes_price stored for its
\* bar whenever one is stored, whatever its value, and 0.5 only when none is.
C17_MarketProbIsStoredPrice ==
    (Len(trades) >= 1 /\ row.open_time_ms = LastTrade.open_time_ms) =>
        LastTrade.market_prob = IF row.yes_price = None THEN 50 ELSE row.yes_price

\* The day-start balance of a timestamp's UTC day, 0 if the day has none.
DayStartOr0(ds, ms) == IF UtcDay(ms) \in DOMAIN ds THEN ds[UtcDay(ms)] ELSE 0

\* C15: with the default arguments, a row examined while the run is not
\* stopped is traded exactly when has_edge holds and can_trade allows the
\* balance, the loss counter and the day-start balance of the row's day;
\* the position recorded is position_size(balance).
C15_SimulatorAgreesWithRiskManager ==
    [][ (params = DefaultParams /\ i' = i + 1) =>
          /\ (Len(trades') = Len(trades) + 1) <=>
                /\ HasEdge(row'.model_prob, RowMarket(row'))
                /\ CanTrade(balance, consecutive_losses,
                            DayStartOr0(daily_start, row'.open_time_ms)).allowed
          /\ (Len(trades') = Len(trades) + 1) =>
                trades'[Len(trades')].position_usd = PositionSize(balance) ]_vars

\* C15 witness: under the defaults a third trade is recorded after a loss,
\* on the day of that loss, which has its day-start entry.
C15_Witness ==
    /\ params = DefaultParams
    /\ Len(trades) = 3
    /\ LastTrade.consecutive_losses_before = 1
    /\ TradeDay(3) = TradeDay(2)

\* ---------------------------------------------------------------- C13
\* The verdict the precedence list gives for an argument triple: the first
\* condition that holds decides.
PrecedenceVerdict(bal, losses, day_start) ==
    IF bal < Scale \div 100
    THEN << FALSE, "insufficient balance" >>
    ELSE IF losses >= CONSECUTIVE_LOSS_STOP
    THEN << FALSE, "stopped: 2 consecutive losses" >>
    ELSE IF day_start > 0
            /\ (day_start - bal) * DAILY_DRAWDOWN_CAP_PCT.den
                   >= DAILY_DRAWDOWN_CAP_PCT.num * day_start
    THEN << FALSE, "stopped: daily drawdown >= 10%" >>
    ELSE IF (IF bal \div 10 <= 10 * Scale THEN bal \div 10 ELSE 10 * Scale) < Scale \div 100
    THEN << FALSE, "position size too small" >>
    ELSE << TRUE, "ok" >>

\* C13: can_trade answers every argument triple with the verdict of the
\* first condition that holds, in the order: balance under 0.01, loss streak
\* at the limit, daily drawdown at the cap, position under 0.01, else ok.
\* A balance under 0.01 refuses whatever the streak and the drawdown are,
\* and a streak at the limit refuses a healthy balance.
C13_CanTradePrecedence ==
    call.op = "can_trade" =>
        /\ << call.result.allowed, call.result.reason >>
              = PrecedenceVerdict(call.balance, call.consecutive_losses,
                                  call.day_start_balance)
        /\ call.balance < Scale \div 100 => call.result.reason = "insufficient balance"
        /\ (call.balance >= Scale \div 100
              /\ call.consecutive_losses >= CONSECUTIVE_LOSS_STOP)
             => call.result = [allowed |-> FALSE, reason |-> "stopped: 2 consecutive losses"]

\* A balance under 0.01 together with a streak over the limit: the balance
\* decides the reason.
C13_Witness ==
    /\ call.op = "can_trade"
    /\ call.balance < Scale \div 100
    /\ call.consecutive_losses > CONSECUTIVE_LOSS_STOP
    /\ call.result.reason = "insufficient balance"

\* ---------------------------------------------------------------- C14
\* Today's day-start balance of a PaperTradingState, 0 if there is none.
TodayStartOr0(state, today) ==
    IF today \in DOMAIN state.daily_start THEN state.daily_start[today] ELSE 0

\* C14: generate_signal returns BUY_YES exactly when has_edge holds and
\* can_trade allows trading on the state's balance, loss streak and today's
\* day-start balance (0 if none); a BUY_YES carries position_size(balance)
\* and a SKIP carries position 0.
C14_LiveAgreesWithRiskManager ==
    call.op = "generate_signal" =>
        /\ call.result.signal \in {"BUY_YES", "SKIP"}
        /\ call.result.signal = "BUY_YES" <=>
              /\ HasEdge(call.model_prob, call.market_prob)
              /\ CanTrade(ps.balance, ps.consecutive_losses,
                          TodayStartOr0(ps, call.today)).allowed
        /\ call.result.signal = "BUY_YES" => call.result.position_usd = PositionSize(ps.balance)
        /\ call.result.signal = "SKIP" => call.result.position_usd = 0

\* A signal refused although there is an edge, because the balance is at
\* the drawdown cap below today's start.
C14_Witness ==
    /\ call.op = "generate_signal"
    /\ call.result.signal = "SKIP"
    /\ HasEdge(call.model_prob, call.market_prob)
    /\ ps.consecutive_losses = 0
    /\ call.today \in DOMAIN ps.daily_start
    /\ ps.daily_start[call.today] = INITIAL_BALANCE
    /\ ps.balance = 90 * Scale

\* ---------------------------------------------------------------- C16
\* C16: every refusal reason of generate_signal is one of the two backtest
\* stop reasons, "no edge" or "insufficient balance"; a loss-streak refusal
\* carries the simulator's loss-streak reason and a drawdown refusal the
\* simulator's drawdown reason.
C16_SameReasonVocabulary ==
    (call.op = "generate_signal" /\ call.result.signal = "SKIP") =>
        /\ call.result.reason \in {ReasonLossStreak, ReasonDrawdown,
                                   "no edge", "insufficient balance"}
        /\ ps.consecutive_losses >= CONSECUTIVE_LOSS_STOP
              => call.result.reason = ReasonLossStreak
        /\ (ps.consecutive_losses < CONSECUTIVE_LOSS_STOP
              /\ LiveDrawdownHit(ps, call.today))
              => call.result.reason = ReasonDrawdown

\* ---------------------------------------------------------------- C18
\* The open time of the bar whose feature row is the last one returned,
\* the row run_paper_signal hands to the model.
ScoredBarTime == feat.timestamps[Len(feat.timestamps)]

\* C18: in run_paper_signal the feature row fed to the model is the row of
\* the bar whose market price and open_time_ms are used and recorded for
\* the signal.
C18_SignalOnOneBar ==
    (fpc = "done" /\ paper.status = "ok") =>
        /\ ScoredBarTime = paper.open_time_ms
        /\ ScoredBarTime = ps.trades_log[Len(ps.trades_log)].open_time_ms

\* ---------------------------------------------------------------- C19
NonNegative(x) == IF x > 0 THEN x ELSE 0

\* C19: for n bars build_features stacks, before dropping non-finite rows,
\* exactly max(0, (n - 1) - 35) rows whose timestamps are the open times of
\* bars 35 .. n - 2 in order; when n < 2 or n - 1 <= 35 it returns empty
\* features, labels and timestamps.
C19_RowsBeforeDrop ==
    LET n == Len(aligned)
        rows == NonNegative((n - 1) - 35)
    IN  /\ fpc \in {"stacked", "built"} =>
              /\ Len(stacked.X) = rows
              /\ Len(stacked.y) = rows
              /\ stacked.timestamps = [j \in 1..rows |-> aligned[35 + j].open_time_ms]
        /\ (fpc = "built" /\ (n < 2 \/ n - 1 <= 35)) =>
              /\ feat.X = << >>
              /\ feat.y = << >>
              /\ feat.timestamps = << >>

\* Two rows are stacked from 38 bars and the first of them is not finite.
C19_Witness ==
    /\ fpc = "stacked"
    /\ Len(aligned) = 38
    /\ Len(stacked.X) = 2
    /\ ~stacked.X[1].finite
    /\ stacked.X[2].finite

\* ---------------------------------------------------------------- C20
\* The index, from 0, of the bar that opens at time t.
BarAt(t) == CHOOSE b \in 0..(Len(aligned) - 1) : aligned[b + 1].open_time_ms = t

\* C20: every returned label belongs to a bar i that is not the final bar
\* and is 1 exactly when close[i + 1] > close[i]; equal closes give 0.
C20_LabelIsNextCloseHigher ==
    fpc = "built" =>
        /\ Len(feat.y) = Len(feat.timestamps)
        /\ \A j \in 1..Len(feat.y) :
              LET b == BarAt(feat.timestamps[j])
              IN  /\ b < Len(aligned) - 1
                  /\ feat.X[j].bar = b
                  /\ feat.y[j] \in {0, 1}
                  /\ feat.y[j] = 1 <=> aligned[b + 2].close > aligned[b + 1].close

\* The first stacked row is dropped; the row kept is followed by an equal
\* close and is labelled 0, while the dropped row was labelled 1.
C20_Witness ==
    /\ fpc = "built"
    /\ stacked.y = << 1, 0 >>
    /\ feat.y = << 0 >>
    /\ LET b == BarAt(feat.timestamps[1])
       IN  aligned[b + 2].close = aligned[b + 1].close

\* ---------------------------------------------------------------- C21
\* The stacked rows, labels and times taken together, in stacking order.
StackedTriples ==
    [j \in 1..Len(stacked.X) |->
        [x |-> stacked.X[j], y |-> stacked.y[j], t |-> stacked.timestamps[j]]]

AllFinite(triple) == triple.x.finite

\* C21: build_features returns features, labels and timestamps of equal
\* length; a stacked row is dropped exactly when one of its values is not
\* finite, its label and timestamp go with it, and what is kept stays in
\* input order.
C21_DropInLockstep ==
    fpc = "built" =>
        LET kept == SelectSeq(StackedTriples, AllFinite)
        IN  /\ Len(feat.X) = Len(feat.y)
            /\ Len(feat.y) = Len(feat.timestamps)
            /\ Len(feat.X) = Len(kept)
            /\ \A j \in 1..Len(kept) :
                  /\ feat.X[j] = kept[j].x
                  /\ feat.y[j] = kept[j].y
                  /\ feat.timestamps[j] = kept[j].t
            /\ \A j \in 1..(Len(feat.timestamps) - 1) :
                  feat.timestamps[j] < feat.timestamps[j + 1]
            /\ \A j \in 1..Len(feat.timestamps) :
                  \E b \in 1..Len(aligned) : aligned[b].open_time_ms = feat.timestamps[j]

\* Of two stacked rows the second is not finite and is dropped with its
\* label; the first is returned.
C21_Witness ==
    /\ fpc = "built"
    /\ Len(stacked.X) = 2
    /\ stacked.X[1].finite
    /\ ~stacked.X[2].finite
    /\ feat.timestamps = << stacked.timestamps[1] >>
    /\ feat.y = << stacked.y[1] >>

\* ---------------------------------------------------------------- C29
\* C29: when the trade that stops the run both reaches the loss-streak
\* limit and meets the daily drawdown cap, the reason is
\* "daily drawdown >= 10%"; "2 consecutive losses" is the reason only when
\* the stopping trade reaches the limit without meeting the cap.
C29_DrawdownReasonOverrides ==
    (stopped /\ Len(trades) > 0) =>
        LET k == Len(trades)
            d == daily_start[TradeDay(k)]
            streak == trades[k].outcome = 0
                        /\ TrailingLosses(k) >= params.consecutive_loss_stop
        IN  /\ (streak /\ MeetsCap(d, k)) => stop_reason = "daily drawdown >= 10%"
            /\ stop_reason = "2 consecutive losses" <=> (streak /\ ~MeetsCap(d, k))

\* The second loss of a day reaches the streak limit and takes the balance
\* to the cap below the day's start, which the first loss had not.
C29_Witness ==
    /\ stopped
    /\ Len(trades) = 2
    /\ TrailingLosses(2) = 2
    /\ params.consecutive_loss_stop = 2
    /\ TradeDay(1) = TradeDay(2)
    /\ ~MeetsCap(daily_start[TradeDay(2)], 1)
    /\ MeetsCap(daily_start[TradeDay(2)], 2)
    /\ stop_reason = "daily drawdown >= 10%"

\* ---------------------------------------------------------------- C24
\* The replay is over: the loop of lines 98..146 has been left.
ReplayOver == pc \in {"curves", "done"} /\ nrows > 0

C22_RsiRange ==
    ind_out.fn = "_rsi" =>
        \A j \in 1..Len(ind_out.result) :
            ind_out.result[j].den # 0 =>
                /\ ind_out.result[j].num >= 0
                /\ ind_out.result[j].num <= 100 * ind_out.result[j].den
                /\ (ind_out.avg_loss[j].num = 0 /\ ind_out.avg_gain[j].num > 0)
                      => ind_out.result[j] = [num |-> 100, den |-> 1]

\* ---------------------------------------------------------------- C23
\* xs[1] + .. + xs[k]
RECURSIVE Total(_, _)
Total(xs, k) == IF k = 0 THEN 0 ELSE Total(xs, k - 1) + xs[k]

\* x * 2 / (p + 1) + y for fractions x and y, in lowest terms.
Smooth(x, y, p) ==
    Ratio(2 * x.num * y.den + y.num * (p + 1) * x.den, (p + 1) * x.den * y.den)

\* C23: _ema returns a series of the input's length; it is all
\* not-a-number when the input is shorter than the period; otherwise
\* entries 0..p-2 are not-a-number, entry p-1 is the mean of the first p
\* values, and every later entry is (x[i] - ema[i-1]) * 2/(p+1) + ema[i-1].
C23_EmaShape ==
    ind_out.fn = "_ema" =>
        LET n == Len(ind_series)
            p == ind_period
            ema == ind_out.result
        IN  /\ Len(ema) = n
            /\ n < p => \A j \in 1..n : ema[j].den = 0
            /\ n >= p =>
                  /\ \A j \in 1..(p - 1) : ema[j].den = 0
                  /\ ema[p].den # 0
                  /\ ema[p].num * p
                        = ema[p].den * Total(ind_series, p)
                  /\ \A j \in (p + 1)..n :
                        /\ ema[j].den # 0
                        /\ ema[j] = Smooth([num |-> ind_series[j] * ema[j - 1].den
                                                       - ema[j - 1].num,
                                            den |-> ema[j - 1].den],
                                           ema[j - 1], p)

\* A series longer than its period of 3: two entries undefined, the mean,
\* and a smoothed entry that differs from the mean and from the input.
C23_Witness ==
    /\ ind_out.fn = "_ema"
    /\ ind_period = 3
    /\ Len(ind_series) = 4
    /\ ind_out.result[2].den = 0
    /\ ind_out.result[3].den # 0
    /\ ind_out.result[4] # ind_out.result[3]
    /\ ind_out.result[4].den # 1


\* ----------------------------------------------------------------- C28
StoredTimes == { binance_klines[k].open_time_ms : k \in 1..Len(binance_klines) }

IsPrefix(s, t) == Len(s) <= Len(t) /\ \A k \in 1..Len(s) : t[k] = s[k]

\* C28: insert_binance_klines ignores duplicates.  The table never holds two
\* rows of one open_time_ms; an insert keeps every stored row as it was and
\* returns the number of rows it added; a batch whose open times are all
\* stored already changes nothing; and inserting the batch just inserted
\* once more changes nothing.
C28_InsertIgnoresDuplicates ==
    /\ [](\A a, b \in 1..Len(binance_klines) :
            a # b => binance_klines[a].open_time_ms # binance_klines[b].open_time_ms)
    /\ [][dbres'.op = "insert_binance_klines" =>
            /\ IsPrefix(binance_klines, binance_klines')
            /\ dbres'.returned = Len(binance_klines') - Len(binance_klines)
            /\ (\A k \in 1..Len(dbres'.rows) :
                    dbres'.rows[k].open_time_ms \in StoredTimes)
                  => (binance_klines' = binance_klines /\ dbres'.returned = 0)]_vars
    /\ [](dbres.op = "insert_binance_klines" =>
            InsertKlines(binance_klines, dbres.rows) = binance_klines)

\* A batch of two rows of one open time and different closes was inserted
\* into a table that already held that open time with the other close first.
C28_Witness ==
    /\ dbres.op = "insert_binance_klines"
    /\ Len(dbres.rows) = 2
    /\ dbres.rows[1].open_time_ms = dbres.rows[2].open_time_ms
    /\ dbres.rows[1].close # dbres.rows[2].close
    /\ dbres.returned = 0
    /\ \E k \in 1..Len(binance_klines) :
          /\ binance_klines[k].open_time_ms = dbres.rows[1].open_time_ms
          /\ binance_klines[k].close = dbres.rows[2].close

\* ----------------------------------------------------------------- C27
\* C27: get_aligned_data returns one row per stored candle of the requested
\* range, cut to limit, in ascending open_time_ms; no candle appears twice,
\* and yes_price is null exactly when no price row has the candle's open
\* time.  Refuted: a candle with price rows of two markets comes twice.
C27_OneRowPerCandle ==
    dbres.op = "get_aligned_data" =>
        LET out == dbres.returned
            inrange == {k \in 1..Len(binance_klines) :
                          InRange(binance_klines[k].open_time_ms,
                                  dbres.start_time_ms, dbres.end_time_ms)}
        IN  /\ Len(out) = Min(dbres.limit, Cardinality(inrange))
            /\ \A a, b \in 1..Len(out) :
                  a < b => out[a].open_time_ms < out[b].open_time_ms
            /\ \A a \in 1..Len(out) :
                  /\ \E k \in inrange :
                        /\ binance_klines[k].open_time_ms = out[a].open_time_ms
                        /\ binance_klines[k].close = out[a].close
                  /\ out[a].yes_price = None <=>
                        \A q \in polymarket_prices :
                            q.open_time_ms # out[a].open_time_ms

\* ----------------------------------------------------------------- C25
\* C25: a failure of Polymarket collection is not fatal to collect_all.
\* When collect_polymarket_prices raises, collect_all returns normally,
\* binance_inserted is the number of candles the first stage inserted,
\* polymarket_inserted is 0, and the candles stay stored.
C25_PolymarketFailureNonFatal ==
    /\ [][(dbres'.op = "collect_all" /\ dbres'.stage = "polymarket") =>
            dbres'.binance_count = Len(binance_klines') - Len(binance_klines)]_vars
    /\ [][(dbres'.op = "collect_all" /\ dbres'.stage = "returned"
              /\ dbres'.failure # "none") =>
            /\ dbres'.raised = "no"
            /\ dbres'.returned.binance_inserted = dbres.binance_count
            /\ dbres'.returned.polymarket_inserted = 0
            /\ binance_klines' = binance_klines]_vars

\* collect_all returned after a timeout of the Polymarket stage; the candle
\* its first stage inserted is stored.
C25_Witness ==
    /\ dbres.op = "collect_all"
    /\ dbres.stage = "returned"
    /\ dbres.failure = "TimeoutError"
    /\ dbres.raised = "no"
    /\ dbres.returned.binance_inserted = 1
    /\ Len(binance_klines) = 1
    /\ polymarket_prices = {}

\* ----------------------------------------------------------------- C26
\* C26: fetch_market_prices falls back to the Gamma prices whenever a CLOB
\* price request fails.  It never raises; a side whose request failed keeps
\* its Gamma price; and None is returned only when neither source has a
\* price for either side.  Refuted: a request whose last attempt timed out
\* raises asyncio.TimeoutError out of fetch_market_prices.
C26_FallsBackOnEveryFailure ==
    pm.pc = "done" =>
        /\ pm.raised = "no"
        /\ pm.live_yes = None => pm.yes_price = pm.gamma_yes
        /\ pm.live_no = None => pm.no_price = pm.gamma_no
        /\ pm.returned = ReturnedNone <=>
              /\ pm.gamma_yes = None /\ pm.gamma_no = None
              /\ pm.live_yes \in {None, NotAsked}
              /\ pm.live_no \in {None, NotAsked}

\* ----------------------------------------------------------------- C30
\* C30: with the default risk fraction, trade cap and drawdown cap, a losing
\* trade that is the first trade of its day and is taken at a balance of at
\* most 100 stops the run with reason "daily drawdown >= 10%".  Refuted in
\* double arithmetic: from balance 81.0 the loss leaves 72.9 and the
\* quotient (81.0 - 72.9) / 81.0 is below the double 0.1.
C30_FirstLossOfDayStops ==
    (/\ fl.ntrades > 0
     /\ fl.outcome = 0
     /\ fl.first_of_day
     /\ ~FLess(FromInt(INITIAL_BALANCE \div Scale), fl.balance_before))
        => (fl.stopped /\ fl.stop_reason = ReasonDrawdown)

\* ---------------------------------------------------------------- C31
\* C31: with a positive drawdown cap the stop flag is set by losing trades
\* only.  The step that sets the flag records a trade of outcome 0, a step
\* that records a winning trade leaves the flag as it was, and whenever the
\* run is stopped the reason is not empty and the last trade of the ledger
\* is a loss.
C31_OnlyLossesStop ==
    /\ [](params.daily_drawdown_cap.num > 0 =>
            (stopped =>
                /\ stop_reason # ""
                /\ Len(trades) > 0
                /\ trades[Len(trades)].outcome = 0))
    /\ [][(params.daily_drawdown_cap.num > 0 /\ Len(trades') = Len(trades) + 1) =>
            /\ (trades'[Len(trades')].outcome = 1 => stopped' = stopped)
            /\ ((stopped' /\ ~stopped) => trades'[Len(trades')].outcome = 0)]_vars
    /\ [][(stopped' /\ ~stopped) => Len(trades') = Len(trades) + 1]_vars

\* C31 witness: a returned run stopped by a loss that followed a winning
\* trade on which the run went on.
C31_Witness ==
    /\ pc = "done"
    /\ stopped
    /\ Len(trades) >= 2
    /\ trades[Len(trades) - 1].outcome = 1
    /\ trades[Len(trades)].outcome = 0
    /\ stats.stop_reason # ""

\* ---------------------------------------------------------------- C32
\* C32 as stated: with 0 < max_risk_pct <= 1 and a positive initial
\* balance the balance stays strictly positive, and the peak balance never
\* decreases and is never below the balance.  Refuted at max_risk_pct = 1:
\* a loss at a balance of at most max_trade_usd removes the whole balance.
C32_BalanceStaysPositive ==
    /\ [](( /\ params.max_risk_pct.num > 0
            /\ params.max_risk_pct.num <= params.max_risk_pct.den
            /\ params.initial_balance > 0 /\ pc # "off") =>
              (balance > 0 /\ peak_balance >= balance))
    /\ [][peak_balance' >= peak_balance]_vars

\* C32 amended: the same with max_risk_pct < 1.  A loss then leaves at
\* least (1 - max_risk_pct) of the balance.
C32_BalanceStaysPositiveBelowOne ==
    /\ [](( /\ params.max_risk_pct.num > 0
            /\ params.max_risk_pct.num < params.max_risk_pct.den
            /\ params.initial_balance > 0 /\ pc # "off") =>
              /\ balance > 0
              /\ peak_balance >= balance
              /\ \A k \in 1..Len(trades) :
                    trades[k].outcome = 0 =>
                        (trades[k].balance_after + trades[k].position_usd)
                                * params.max_risk_pct.num
                            >= trades[k].position_usd * params.max_risk_pct.den)
    /\ [][peak_balance' >= peak_balance]_vars

\* C32 witness: after a win and a loss at max_risk_pct = 1/2 the balance is
\* positive and below the peak.
C32_Witness ==
    /\ params.max_risk_pct = Rat(1, 2)
    /\ Len(trades) = 2
    /\ trades[1].outcome = 1
    /\ trades[2].outcome = 0
    /\ balance > 0
    /\ peak_balance > balance
    /\ peak_balance = trades[1].balance_after

\* ----------------------------------------------------------------- C33
\* C33: after a run with at least one trade the statistics agree with the
\* ledger; in particular final_balance, the balance after the last trade,
\* equals initial_balance + total_pnl, where total_pnl is the sum of the
\* trades' pnl.  Refuted in double arithmetic: from 1.0 two wins leave
\* 1.2100000000000002 while 1.0 + (0.1 + 0.11000000000000001) is 1.21.
C33_FinalBalanceIsInitialPlusPnl ==
    fl.ntrades > 0 => fl.balance = FPlusSigned(fl.initial_balance, fl.total_pnl)

\* The balances whose ledger of two trades breaks the identity.
C33_Exposed ==
    /\ fl.ntrades = 2
    /\ fl.initial_balance = FromInt(1)
    /\ fl.outcome = 1
    /\ ~fl.total_pnl.neg
    /\ FLess(FPlusSigned(fl.initial_balance, fl.total_pnl), fl.balance)

\* ----------------------------------------------------------------- C34
\* The two refusals of generate_signal that report a stop.
StopRefusals == {"stopped: 2 consecutive losses", "stopped: daily drawdown >= 10%"}

\* C34: over any sequence of generate_signal and record_paper_trade calls on
\* a PaperTradingState, generate_signal changes nothing of the state and
\* record_paper_trade appends exactly one entry to trades_log and changes
\* nothing else; balance, consecutive_losses and daily_start keep the values
\* they had at construction, so a state constructed by
\* PaperTradingState(initial_balance) never gets the loss-streak or the
\* daily-drawdown refusal.
C34_StateIsNeverUpdated ==
    /\ [][/\ ps'.balance = ps.balance
          /\ ps'.consecutive_losses = ps.consecutive_losses
          /\ ps'.daily_start = ps.daily_start
          /\ (call'.op = "generate_signal" => ps' = ps)
          /\ (call'.op = "record_paper_trade" =>
                /\ Len(ps'.trades_log) = Len(ps.trades_log) + 1
                /\ SubSeq(ps'.trades_log, 1, Len(ps.trades_log)) = ps.trades_log)]_vars
    /\ (\E b \in PaperBalances : ps = PaperTradingState(b)) =>
          [](call.op = "generate_signal" => call.result.reason \notin StopRefusals)

\* A freshly constructed state whose BUY_YES signal was recorded is asked
\* for a signal again.
C34_Witness ==
    /\ ps = [PaperTradingState(INITIAL_BALANCE) EXCEPT !.trades_log = ps.trades_log]
    /\ Len(ps.trades_log) = 1
    /\ ps.trades_log[1].signal = "BUY_YES"
    /\ call.op = "generate_signal"
    /\ call.result.signal = "BUY_YES"

\* ----------------------------------------------------------------- C35
\* The four checks of generate_signal, each stated on the arguments of the
\* call alone.
StreakCheckFails == ps.consecutive_losses >= CONSECUTIVE_LOSS_STOP

DrawdownCheckFails ==
    /\ call.today \in DOMAIN ps.daily_start
    /\ IF ps.daily_start[call.today] > 0
       THEN (ps.daily_start[call.today] - ps.balance) * DAILY_DRAWDOWN_CAP_PCT.den
                >= DAILY_DRAWDOWN_CAP_PCT.num * ps.daily_start[call.today]
       ELSE DAILY_DRAWDOWN_CAP_PCT.num <= 0

EdgeCheckFails == call.model_prob - call.market_prob < EDGE_THRESHOLD

SizeCheckFails == MAX_RISK_PCT.num * ps.balance < MinPosition * MAX_RISK_PCT.den

\* C35: generate_signal returns the reason of the first failing check in the
\* order loss streak, daily drawdown (looked at only when today has a
\* day-start entry), edge, position size, and BUY_YES when none fails.  At
\* the loss-streak limit the answer is the loss-streak refusal whatever the
\* other three checks say; an insufficient edge gives the no-edge refusal
\* also when the position would be below 0.01.
C35_FirstFailingCheckDecides ==
    (call.op = "generate_signal") =>
        LET r == call.result
        IN  /\ StreakCheckFails => (r.signal = "SKIP" /\ r.reason = "stopped: 2 consecutive losses")
            /\ (~StreakCheckFails /\ DrawdownCheckFails) =>
                  (r.signal = "SKIP" /\ r.reason = "stopped: daily drawdown >= 10%")
            /\ (~StreakCheckFails /\ ~DrawdownCheckFails /\ EdgeCheckFails) =>
                  (r.signal = "SKIP" /\ r.reason = "no edge (need >= 0.06)")
            /\ (~StreakCheckFails /\ ~DrawdownCheckFails /\ ~EdgeCheckFails /\ SizeCheckFails) =>
                  (r.signal = "SKIP" /\ r.reason = "insufficient balance")
            /\ (~StreakCheckFails /\ ~DrawdownCheckFails /\ ~EdgeCheckFails /\ ~SizeCheckFails) =>
                  r.signal = "BUY_YES"

\* An insufficient edge on a balance too small to trade, refused for the
\* edge; the day has no day-start entry although another day has one that
\* would be a drawdown.
C35_Witness ==
    /\ call.op = "generate_signal"
    /\ EdgeCheckFails
    /\ SizeCheckFails
    /\ ~StreakCheckFails
    /\ call.today \notin DOMAIN ps.daily_start
    /\ DOMAIN ps.daily_start # {}
    /\ call.result.reason = "no edge (need >= 0.06)"

\* ----------------------------------------------------------------- C36
\* C36: when every request answers with the first klines, up to the page
\* size, of [current_start, end_time_ms] in ascending order,
\* fetch_klines_range returns every kline of [start_time_ms, end_time_ms]
\* exactly once in ascending order.  Refuted: for start_time_ms =
\* end_time_ms the loop is not entered and the kline at that time is not
\* returned.
C36_ReturnsEveryKlineOnce ==
    (bn.pc = "returned") =>
        bn.all_klines = Ascending({t \in bn.exchange :
                                      bn.start_time_ms <= t /\ t <= bn.end_time_ms})

\* The parts of the claim that hold: the request start strictly increases
\* from page to page, nothing is returned twice or out of order or from
\* outside the range, and the call returns.
C36_PagingAdvances ==
    /\ [][(bn'.pc = "while") => bn'.current_start > bn.current_start]_vars
    /\ [](\A j, k \in 1..Len(bn.all_klines) :
            /\ (j < k => bn.all_klines[j].open_time_ms < bn.all_klines[k].open_time_ms)
            /\ bn.all_klines[j].open_time_ms \in bn.exchange
            /\ bn.start_time_ms <= bn.all_klines[j].open_time_ms
            /\ bn.all_klines[j].open_time_ms <= bn.end_time_ms)
    /\ <>(bn.pc = "returned")

\* ----------------------------------------------------------------- C37
\* C37: a call of _request_with_retry makes at most POLYMARKET_MAX_RETRIES
\* attempts.  It returns the response of the first attempt that succeeds,
\* every attempt before it having failed with a client error or a timeout;
\* it sleeps once after every failed attempt but the last of the
\* POLYMARKET_MAX_RETRIES; when all of them fail it raises the error of the
\* last attempt; an error of another kind ends the call at the attempt that
\* raised it.
C37_RetryDiscipline ==
    /\ pm # << >> =>
          /\ pm.attempt <= pm.retries
          /\ Len(pm.errors) = pm.attempt
          /\ pm.sleeps = Min(pm.attempt, pm.retries - 1)
    /\ (pm # << >> /\ pm.request.result # "none") =>
          LET r == pm.request
          IN  /\ r.attempts <= pm.retries
              /\ \A k \in 1..Len(r.errors) : r.errors[k] \in Retried
              /\ (r.result = "returned") =>
                    /\ r.attempts = Len(r.errors) + 1
                    /\ r.sleeps = Len(r.errors)
              /\ (r.result = "raised" /\ r.error \in Retried) =>
                    /\ r.attempts = pm.retries
                    /\ Len(r.errors) = pm.retries
                    /\ r.error = r.errors[Len(r.errors)]
                    /\ r.sleeps = pm.retries - 1
              /\ (r.result = "raised" /\ r.error \notin Retried) =>
                    /\ r.attempts = Len(r.errors) + 1
                    /\ r.sleeps = Len(r.errors)

\* Two attempts were allowed; the first failed with a client error, the
\* second timed out, and the timeout was raised after one sleep.
C37_Witness ==
    /\ pm.retries = 2
    /\ pm.request = Request(2, 1, << "ClientError", "TimeoutError" >>, "raised", "TimeoutError")

\* ----------------------------------------------------------------- C38
SeriesNames == {"returns", "ema9", "ema21", "ema_slope", "rsi", "macd_line",
                "macd_signal", "macd_hist", "atr", "vol_change"}

\* The first index at which the claim has each indicator defined.
DefinedFrom ==
    [ema9 |-> 8, atr |-> 13, rsi |-> 14, ema21 |-> 20, macd_line |-> 25,
     macd_hist |-> 25, macd_signal |-> 8]

AllBarsFinite ==
    \A j \in 1..Len(aligned) : IsFinite(aligned[j].close) /\ IsFinite(aligned[j].volume)

\* C38: for bars with finite values each of the ten series is defined at
\* every index >= 35.  EMA-fast is defined from index 8 on and not before,
\* ATR from 13, RSI from 14, EMA-slow from 20, the MACD line and histogram
\* from 25, and the MACD signal from 8 since the not-a-number values of the
\* line are replaced by 0 before it is smoothed.  So the mask of line 164
\* marks every stacked row finite and no row of [35, n - 1) is dropped.
C38_DefinedAfterWarmup ==
    AllBarsFinite =>
        LET klines == KlinesOf(aligned)
            n == Len(klines)
            defined == SeriesDefined(klines)
        IN  /\ \A idx \in 0..(n - 1) :
                  /\ \A s \in DOMAIN DefinedFrom :
                        defined[s][idx + 1] <=> idx >= DefinedFrom[s]
                  /\ idx >= MinLen => \A s \in SeriesNames : defined[s][idx + 1]
                  /\ RowFinite(klines, idx) <=> \A s \in SeriesNames : defined[s][idx + 1]
            /\ fpc = "stacked" => \A j \in 1..Len(stacked.X) : stacked.X[j].finite
            /\ (fpc \in {"built", "done"} /\ n - 1 > MinLen) =>
                  /\ Len(feat.X) = n - 1 - MinLen
                  /\ \A j \in 1..Len(feat.X) : feat.X[j].bar = MinLen + j - 1

\* 38 finite bars were built into the two rows of bars 35 and 36, with a
\* close that moved in the tail.
C38_Witness ==
    /\ AllBarsFinite
    /\ Len(aligned) = 38
    /\ aligned[36].close # aligned[37].close
    /\ fpc = "built"
    /\ Len(feat.X) = 2
    /\ ~SeriesDefined(KlinesOf(aligned)).macd_line[25]
    /\ SeriesDefined(KlinesOf(aligned)).macd_signal[9]

====
